---- MODULE Spec2Model ----
(***************************************************************************)
(* Model of pipeline/preprocess.py: the CNMF extraction run               *)
(* (ExtractRaw._make_tuples), the sparse mask encoding                     *)
(* (ExtractRaw.GalvoROI.reshape_masks), trace assembly                     *)
(* (ComputeTraces._make_tuples), spike-inference dispatch                  *)
(* (Spikes._make_tuples, Spikes.key_source), the frame count              *)
(* reconciliation of Eye.grab_timestamps_and_frames, the matrices of       *)
(* ExtractRaw.save_video and the helpers notnan, fill_nans,                *)
(* Prepare.Galvo.get_correct_raster and                                    *)
(* Prepare.Galvo.estimate_num_components_per_slice.                        *)
(*                                                                         *)
(* The store is modelled one variable per table; a table is the set of its *)
(* rows and insert1 refuses a row whose primary key is already present.    *)
(* One run key (one scan, one extract method) is modelled, so the rows do  *)
(* not repeat the key attributes.                                          *)
(*                                                                         *)
(* numpy arrays are functions over 0..n-1, as in the code.                 *)
(***************************************************************************)
EXTENDS Integers, Sequences, FiniteSets, TLC

VARIABLES
    \* ---- ExtractRaw._make_tuples: scan data and upstream tables
    Galvo,                  \* the Prepare.Galvo row of the scan
    GalvoMotion,            \* Prepare.GalvoMotion rows of the scan, in fetch (slice) order
    TargetStructure,        \* TRUE iff experiment.Session.TargetStructure() & key is not empty
    \* ---- ExtractRaw tables
    ExtractRaw,             \* master rows
    Trace,
    GalvoSegmentation,
    GalvoROI,
    SpikeRate,
    GalvoCorrelationImage,
    BackgroundComponents,
    ARCoefficients,
    CNMFParameters,
    \* ---- ExtractRaw._make_tuples: locals and position
    pc,                     \* position in _make_tuples
    error,                  \* the exception that ended the run, "" while none
    kwargs,                 \* arguments passed to the demix routine
    channel_idx,            \* position of the `for channel in scan_channels` loop
    slice_idx,              \* position of the `for slice in scan_slices` loop
    num_traces_until_now,
    corrected_scan,
    cnmf_result,            \* what demix_and_deconvolve_with_cnmf returned for this slice
    i,                      \* position of the `for i in range(final_num_components)` loop
    demixed,                \* what the demix routine returned, per call (channel, slice)
    \* ---- ExtractRaw.get_all_masks / GalvoROI.reshape_masks
    location_matrix,        \* a stack of dense masks, location_matrix[k] for [:, :, k]
    ret,                    \* what reshape_masks returned
    reextracted,            \* (mask_pixels, mask_weights) taken again from ret
    masks_pc,
    \* ---- ExtractRaw.save_video: get_all_masks and get_all_traces
    video_key,              \* the slice and channel save_video was called with
    activity_matrix,        \* what get_all_traces returned
    \* ---- fill_nans
    x_array,                \* the array x, modified in place
    x_input,                \* the array as it was passed
    fill_pc,
    \* ---- Prepare.Galvo.estimate_num_components_per_slice
    estimated_components,   \* the value returned
    estimate_pc,
    \* ---- Prepare.Galvo.get_correct_raster
    raster_scan,            \* the frames passed to the returned function
    correct_raster,         \* the function returned by get_correct_raster
    raster_result,          \* what that function returned
    correct_raster_calls,   \* the calls of galvo_corrections.correct_raster
    raster_pc,
    \* ---- ComputeTraces._make_tuples
    Fluorophore,            \* experiment.Session.Fluorophore of the key
    ComputeTraces,          \* master rows
    ComputeTracesTrace,     \* ComputeTraces.Trace rows
    compute_pc,
    compute_error,
    pairs,                  \* the (green * blue) rows still to process
    twitch_slope,           \* the slope stats.linregress returned in the last call
    twitch_ratio,           \* what estimate_twitch_ratio returned in the last call
    window,                 \* gt * bt and what notnan returned for it in the last pass
    printed,                \* the lines printed and the warnings issued by the run
    \* ---- Spikes._make_tuples
    SpikeMethod,            \* the SpikeMethod rows
    spike_method,           \* key['spike_method']
    Spikes,                 \* master rows
    RateTrace,              \* Spikes.RateTrace rows
    spikes_pc,
    spikes_error,
    rate_rows,              \* the rows still to insert into Spikes.RateTrace
    \* ---- Eye.grab_timestamps_and_frames
    timestamps,             \* the camera times ts2sec read from the hdf file
    eye_time,
    total_frames,
    no_frames,              \* the frame count of the video
    n_sample_frames,
    frame_idx,
    eye_warnings,           \* the warnings issued
    eye_pc,
    eye_error,
    \* ---- notnan
    notnan_x,               \* the array passed
    notnan_start,
    notnan_increment,
    notnan_result,          \* the index returned or the exception raised
    notnan_pc

extractVars == <<Galvo, GalvoMotion, TargetStructure, ExtractRaw, Trace,
                 GalvoSegmentation, GalvoROI, SpikeRate, GalvoCorrelationImage,
                 BackgroundComponents, ARCoefficients, CNMFParameters, pc, error, kwargs,
                 channel_idx, slice_idx, num_traces_until_now, corrected_scan,
                 cnmf_result, i, demixed>>

tableVars == <<ExtractRaw, Trace, GalvoSegmentation, SpikeRate, GalvoCorrelationImage,
               BackgroundComponents, ARCoefficients, CNMFParameters>>

localVars == <<pc, error, kwargs, channel_idx, slice_idx, num_traces_until_now,
               corrected_scan, cnmf_result, i, demixed>>

\* The variables of the extraction run but the Prepare.Galvo row and the masks.
runVars == <<GalvoMotion, TargetStructure, tableVars, localVars>>

maskVars == <<location_matrix, ret, reextracted, masks_pc, video_key, activity_matrix>>

fillVars == <<x_array, x_input, fill_pc>>

estimateVars == <<estimated_components, estimate_pc>>

rasterVars == <<raster_scan, correct_raster, raster_result, correct_raster_calls, raster_pc>>

computeVars == <<Fluorophore, ComputeTraces, ComputeTracesTrace, compute_pc, compute_error,
                 pairs, twitch_slope, twitch_ratio, window, printed>>

spikeVars == <<SpikeMethod, spike_method, Spikes, RateTrace, spikes_pc, spikes_error,
               rate_rows>>

eyeVars == <<timestamps, eye_time, total_frames, no_frames, n_sample_frames, frame_idx,
             eye_warnings, eye_pc, eye_error>>

notnanVars == <<notnan_x, notnan_start, notnan_increment, notnan_result, notnan_pc>>

vars == <<extractVars, maskVars, fillVars, estimateVars, rasterVars, computeVars, spikeVars,
          eyeVars, notnanVars>>

\* The variables an operation of one part of the program leaves alone.
notExtractVars == <<maskVars, fillVars, estimateVars, rasterVars, computeVars, spikeVars,
                   eyeVars, notnanVars>>
notMaskVars == <<fillVars, estimateVars, rasterVars, computeVars, spikeVars, eyeVars,
                notnanVars>>
notEstimateVars == <<GalvoMotion, GalvoROI, tableVars, localVars, maskVars, fillVars,
                     rasterVars, computeVars, spikeVars, eyeVars, notnanVars>>
notRasterVars == <<GalvoMotion, TargetStructure, GalvoROI, tableVars, localVars, maskVars,
                   fillVars, estimateVars, computeVars, spikeVars, eyeVars,
                   notnanVars>>
notComputeVars == <<Galvo, GalvoMotion, TargetStructure, GalvoROI, GalvoSegmentation,
                    SpikeRate, GalvoCorrelationImage, BackgroundComponents, ARCoefficients,
                    CNMFParameters, localVars, maskVars, fillVars, estimateVars,
                    rasterVars, spikeVars, eyeVars, notnanVars>>
notSpikeVars == <<Galvo, GalvoMotion, TargetStructure, ExtractRaw, Trace, GalvoROI,
                  GalvoSegmentation, GalvoCorrelationImage, BackgroundComponents,
                  ARCoefficients, CNMFParameters, localVars, maskVars, fillVars,
                  estimateVars, rasterVars, Fluorophore, compute_pc, compute_error, pairs,
                  twitch_slope, twitch_ratio, window, printed, eyeVars,
                  notnanVars>>
notFillVars == <<extractVars, maskVars, estimateVars, rasterVars, computeVars, spikeVars,
                 eyeVars, notnanVars>>

-----------------------------------------------------------------------------
(* Bounds of the model *)

MaxSlices == 2          \* slices of a scan
MaxChannels == 2        \* recorded channels of a scan
MaxComponents == 2      \* components the demix routine returns for one slice
MaxLen == 4             \* length of a trace
MaxValue == 2           \* trace values are 0 .. MaxValue, or NaN
MaxMicrons == 40        \* slice width and height in micrometers
MaxPixel == 2           \* raw pixel values are 0 .. MaxPixel
MaxFrames == 2          \* pixels in the frames passed to a correction
MaxTimesteps == 3       \* timesteps of the traces of a run

-----------------------------------------------------------------------------
(* Generic helpers *)

\* The run key: one scan and one extraction method.
key == [animal_id |-> 1, session |-> 1, scan_idx |-> 1, extract_method |-> 2]

Range(f) == {f[x] : x \in DOMAIN f}

\* Primary keys of a table: the rows restricted to the key attributes.
Keys(table, attrs) == {[a \in attrs |-> row[a]] : row \in table}

\* insert1 raises on a row whose primary key is present.
Duplicate(table, attrs, row) == [a \in attrs |-> row[a]] \in Keys(table, attrs)

-----------------------------------------------------------------------------
(* Prepare.Galvo: component count and neuron size estimates *)

\* Python 3 round() of the exact quotient num / den (num >= 0, den > 0):
\* to the nearest integer, a tie to the even one.
RoundHalfEven(num, den) ==
    LET q == num \div den
        r == num % den
    IN  IF 2 * r < den THEN q
        ELSE IF 2 * r > den THEN q + 1
        ELSE IF q % 2 = 0 THEN q ELSE q + 1

slice_thickness == 10           \* micrometers, an assumption of the code
somatic_volume_per_component == 10000   \* num_components = slice_volume * 0.0001
axonal_volume_per_component == 1000     \* num_components = slice_volume * 0.001
neuron_size_in_microns == 15

slice_volume(um_width, um_height) == um_width * um_height * slice_thickness

\* Mutant: the two densities exchanged.
estimate_densities_exchanged(um_width, um_height, target_structure) ==
    IF target_structure
    THEN RoundHalfEven(slice_volume(um_width, um_height), somatic_volume_per_component)
    ELSE RoundHalfEven(slice_volume(um_width, um_height), axonal_volume_per_component)

estimate_num_components_per_slice(um_width, um_height, target_structure) ==
    IF target_structure
    THEN RoundHalfEven(slice_volume(um_width, um_height), axonal_volume_per_component)
    ELSE RoundHalfEven(slice_volume(um_width, um_height), somatic_volume_per_component)

estimate_neuron_size_in_pixels(um_width, px_width) ==
    LET rounded == RoundHalfEven(neuron_size_in_microns * px_width, um_width)
    IN  IF rounded > 1 THEN rounded ELSE 1

-----------------------------------------------------------------------------
(* Sparse mask encoding: indices into the image in column major (Fortran)  *)
(* order, starting at 1, with the weights at those indices.                *)

\* A dense image: rows 0..px_height-1, columns 0..px_width-1.
Images(px_height, px_width, weights) ==
    [0 .. px_height - 1 -> [0 .. px_width - 1 -> weights]]

\* image.ravel(order='F'): element k of the vector is row k % h, column k \div h.
ravel_F(image, px_height, px_width) ==
    [k \in 0 .. px_height * px_width - 1 |-> image[k % px_height][k \div px_height]]

\* Mutant: the vector reshaped in row major (C) order.
reshape_C(vector, px_height, px_width) ==
    [r \in 0 .. px_height - 1 |-> [c \in 0 .. px_width - 1 |-> vector[r * px_width + c]]]

\* vector.reshape(px_height, px_width, order='F')
reshape_F(vector, px_height, px_width) ==
    [r \in 0 .. px_height - 1 |-> [c \in 0 .. px_width - 1 |-> vector[c * px_height + r]]]

\* np.where(vector)[0]: the positions of the non-zero elements, ascending.
where(vector, n) ==
    LET nonzero(k) == vector[k] # 0
    IN  SelectSeq([j \in 1 .. n |-> j - 1], nonzero)

\* Mutant: the indices left 0-based (line 672 missing).
defined_mask_0_based(image, px_height, px_width) ==
    LET mask_as_F_ordered_vector == ravel_F(image, px_height, px_width)
        defined_mask_indices == where(mask_as_F_ordered_vector, px_height * px_width)
    IN  [mask_pixels  |-> defined_mask_indices,
         mask_weights |-> [j \in DOMAIN defined_mask_indices |->
                              mask_as_F_ordered_vector[defined_mask_indices[j]]]]

\* Lines 668-672 of ExtractRaw._make_tuples: the mask of one component as
\* (mask_pixels, mask_weights).
defined_mask(image, px_height, px_width) ==
    LET mask_as_F_ordered_vector == ravel_F(image, px_height, px_width)
        defined_mask_indices == where(mask_as_F_ordered_vector, px_height * px_width)
    IN  [mask_pixels  |-> [j \in DOMAIN defined_mask_indices |->
                              defined_mask_indices[j] + 1],
         mask_weights |-> [j \in DOMAIN defined_mask_indices |->
                              mask_as_F_ordered_vector[defined_mask_indices[j]]]]

\* mask[mp - 1] = mw on a zero vector of length n: element j of mw goes to
\* position mp[j] - 1, a negative position counting from the end.
scatter(n, mp, mw) ==
    LET position(j) == IF mp[j] - 1 < 0 THEN mp[j] - 1 + n ELSE mp[j] - 1
    IN  [k \in 0 .. n - 1 |->
            LET hits == {j \in DOMAIN mp : position(j) = k}
            IN  IF hits = {} THEN 0
                ELSE mw[CHOOSE j \in hits : \A other \in hits : other <= j]]

\* ExtractRaw.GalvoROI.reshape_masks: ret[k] stands for ret[..., k].
reshape_masks(mask_pixels, mask_weights, image_height, image_width) ==
    [k \in 0 .. Len(mask_pixels) - 1 |->
        reshape_F(scatter(image_height * image_width, mask_pixels[k + 1],
                          mask_weights[k + 1]),
                  image_height, image_width)]

\* fetch.order_by('trace_id'): the rows as a list, ascending in trace_id.
RECURSIVE order_by_trace_id(_)
order_by_trace_id(rows) ==
    IF rows = {} THEN <<>>
    ELSE LET first == CHOOSE r \in rows : \A other \in rows : r.trace_id <= other.trace_id
         IN  <<first>> \o order_by_trace_id(rows \ {first})

-----------------------------------------------------------------------------
(* ExtractRaw._make_tuples *)

\* The scans of the model: a scan has nchannels recorded channels and nslices
\* slices of px_height x px_width pixels.
px_height == 2
px_width == 2
Weights == 0 .. 2

GalvoRows ==
    {[px_height |-> px_height, px_width |-> px_width, um_width |-> um[1],
      um_height |-> um[2], nchannels |-> n, nslices |-> s] :
        um \in {<<50, 30>>}, n \in 1 .. MaxChannels, s \in 1 .. MaxSlices}

\* Prepare.GalvoMotion has primary key (scan, slice) and names one channel per
\* slice: one row per slice of the scan, fetched in primary key order.
GalvoMotionRows(galvo) ==
    {rows \in [1 .. galvo.nslices -> [slice : 1 .. galvo.nslices,
                                      channel : 1 .. galvo.nchannels]] :
        \A s \in 1 .. galvo.nslices : rows[s].slice = s}

\* The masks the demix routine returns in the model: an empty mask, a mask of
\* one pixel in the last column, and a mask over several pixels with unequal
\* weights.
SampleMasks ==
    <<[r \in 0 .. px_height - 1 |-> [c \in 0 .. px_width - 1 |-> 0]],
      [r \in 0 .. px_height - 1 |-> [c \in 0 .. px_width - 1 |->
          IF r = 0 /\ c = px_width - 1 THEN 2 ELSE 0]],
      [r \in 0 .. px_height - 1 |-> [c \in 0 .. px_width - 1 |-> (r + 2 * c + 1) % 3]]>>

\* (Prepare.GalvoMotion() & key).fetch['slice', 'channel']
scan_slices == [s \in DOMAIN GalvoMotion |-> GalvoMotion[s].slice]
scan_channels == [s \in DOMAIN GalvoMotion |-> GalvoMotion[s].channel]

channel == scan_channels[channel_idx]
slice == scan_slices[slice_idx]

\* Mutant: the somatic and the axonal/dendritic parameters exchanged.
demix_kwargs_exchanged(galvo, target_structure) ==
    LET estimate == estimate_num_components_per_slice(galvo.um_width, galvo.um_height,
                                                      target_structure)
        num_components == estimate + (estimate \div 2)
        general == [num_components |-> num_components, AR_order |-> 2,
                    merge_threshold |-> <<8, 10>>, num_processes |-> 20,
                    num_pixels_per_process |-> 10000, block_size |-> 5000]
        is_somatic == ~target_structure
        somatic == [init_method |-> "greedy_roi",
                    neuron_size_in_pixels |->
                        estimate_neuron_size_in_pixels(galvo.um_width, galvo.px_width),
                    num_background_components |-> 4, init_on_patches |-> FALSE]
        axonal == [init_method |-> "sparse_nmf", snmf_alpha |-> 500,
                   num_background_components |-> 1, init_on_patches |-> TRUE]
        patches == [patch_downsampling_factor |-> 4,
                    percentage_of_patch_overlap |-> <<2, 10>>]
    IN  IF is_somatic THEN general @@ axonal @@ patches ELSE general @@ somatic
\* Lines 591-625: the arguments of the demix routine.
demix_kwargs(galvo, target_structure) ==
    LET estimate == estimate_num_components_per_slice(galvo.um_width, galvo.um_height,
                                                      target_structure)
        num_components == estimate + (estimate \div 2)
        general == [num_components |-> num_components, AR_order |-> 2,
                    merge_threshold |-> <<8, 10>>, num_processes |-> 20,
                    num_pixels_per_process |-> 10000, block_size |-> 5000]
        is_somatic == ~target_structure
        somatic == [init_method |-> "greedy_roi",
                    neuron_size_in_pixels |->
                        estimate_neuron_size_in_pixels(galvo.um_width, galvo.px_width),
                    num_background_components |-> 4, init_on_patches |-> FALSE]
        axonal == [init_method |-> "sparse_nmf", snmf_alpha |-> 500,
                   num_background_components |-> 1, init_on_patches |-> TRUE]
        patches == [patch_downsampling_factor |-> 4,
                    percentage_of_patch_overlap |-> <<2, 10>>]
    IN  IF is_somatic THEN general @@ somatic ELSE general @@ axonal @@ patches

Fail(exception) ==
    /\ pc' = "failed"
    /\ error' = exception

\* The variables of the mask utilities while they are not in use.
MasksIdle ==
    /\ location_matrix = <<>>
    /\ ret = <<>>
    /\ reextracted = <<>>
    /\ masks_pc = "idle"
    /\ video_key = <<>>
    /\ activity_matrix = <<>>

FillIdle ==
    /\ x_array = <<>>
    /\ x_input = <<>>
    /\ fill_pc = "idle"

EstimateIdle ==
    /\ estimated_components = 0
    /\ estimate_pc = "idle"

RasterIdle ==
    /\ raster_scan = <<>>
    /\ correct_raster = <<>>
    /\ raster_result = <<>>
    /\ correct_raster_calls = <<>>
    /\ raster_pc = "idle"

ComputeIdle ==
    /\ Fluorophore = ""
    /\ ComputeTraces = {}
    /\ ComputeTracesTrace = {}
    /\ compute_pc = "idle"
    /\ compute_error = ""
    /\ pairs = <<>>
    /\ twitch_slope = ""
    /\ twitch_ratio = <<>>
    /\ window = <<>>
    /\ printed = <<>>

SpikesIdle ==
    /\ SpikeMethod = {}
    /\ spike_method = 0
    /\ Spikes = {}
    /\ RateTrace = {}
    /\ spikes_pc = "idle"
    /\ spikes_error = ""
    /\ rate_rows = <<>>

EyeIdle ==
    /\ timestamps = <<>>
    /\ eye_time = <<>>
    /\ total_frames = 0
    /\ no_frames = 0
    /\ n_sample_frames = 0
    /\ frame_idx = <<>>
    /\ eye_warnings = <<>>
    /\ eye_pc = "idle"
    /\ eye_error = ""

NotnanIdle ==
    /\ notnan_x = <<>>
    /\ notnan_start = 0
    /\ notnan_increment = 0
    /\ notnan_result = <<>>
    /\ notnan_pc = "idle"

Init ==
    /\ MasksIdle /\ FillIdle /\ EstimateIdle /\ RasterIdle /\ ComputeIdle /\ SpikesIdle
    /\ EyeIdle /\ NotnanIdle
    /\ Galvo \in GalvoRows
    /\ GalvoMotion \in GalvoMotionRows(Galvo)
    /\ TargetStructure \in BOOLEAN
    /\ ExtractRaw \in {{}, {key}}
    /\ Trace = {}
    /\ GalvoSegmentation = {}
    /\ GalvoROI = {}
    /\ SpikeRate = {}
    /\ GalvoCorrelationImage = {}
    /\ BackgroundComponents = {}
    /\ ARCoefficients = {}
    /\ CNMFParameters = {}
    /\ pc = "start"
    /\ error = ""
    /\ kwargs = <<>>
    /\ channel_idx = 1
    /\ slice_idx = 1
    /\ num_traces_until_now = 0
    /\ corrected_scan = <<>>
    /\ cnmf_result = <<>>
    /\ i = 0
    /\ demixed = {}

\* Mutant: the master row is inserted with skip_duplicates.
InsertKeySkippingDuplicates ==
    /\ pc = "start"
    /\ ExtractRaw' = ExtractRaw \cup {key}
    /\ kwargs' = demix_kwargs(Galvo, TargetStructure)
    /\ pc' = "correct"
    /\ error' = ""
    /\ channel_idx' = 1
    /\ slice_idx' = 1
    /\ num_traces_until_now' = 0
    /\ UNCHANGED notExtractVars
    /\ UNCHANGED <<Galvo, GalvoMotion, TargetStructure, Trace, GalvoSegmentation, GalvoROI,
                   SpikeRate, GalvoCorrelationImage, BackgroundComponents, ARCoefficients,
                   CNMFParameters, corrected_scan, cnmf_result, i, demixed>>

\* Lines 581-630: insert the master row, set the parameters, fetch the slices
\* and channels and enter the first iteration of both loops.
InsertKey ==
    /\ pc = "start"
    /\ IF key \in ExtractRaw
       THEN /\ Fail("DuplicateKey")
            /\ UNCHANGED <<ExtractRaw, kwargs>>
       ELSE /\ ExtractRaw' = ExtractRaw \cup {key}
            /\ kwargs' = demix_kwargs(Galvo, TargetStructure)
            /\ pc' = "correct"
            /\ error' = ""
    /\ channel_idx' = 1
    /\ slice_idx' = 1
    /\ num_traces_until_now' = 0
    /\ UNCHANGED notExtractVars
    /\ UNCHANGED <<Galvo, GalvoMotion, TargetStructure, Trace, GalvoSegmentation, GalvoROI,
                   SpikeRate, GalvoCorrelationImage, BackgroundComponents, ARCoefficients,
                   CNMFParameters, corrected_scan, cnmf_result, i, demixed>>

\* The frames of (channel, slice) as loaded, line 633, and the two corrections
\* of line 640, each recorded in the order of application.
loaded_scan(ch, sl) ==
    [channel |-> ch, slice |-> sl, raster |-> FALSE, motion |-> FALSE, corrections |-> <<>>]
raster_corrected(scan) ==
    [scan EXCEPT !.raster = TRUE, !.corrections = Append(@, "raster")]
motion_corrected(scan) ==
    [scan EXCEPT !.motion = TRUE, !.corrections = Append(@, "motion")]

\* Mutant: the motion correction applied before the raster correction.
CorrectScanMotionFirst ==
    /\ pc = "correct"
    /\ LET scan == loaded_scan(channel, slice)
           motion_rows == {row \in Range(GalvoMotion) :
                              row.slice = slice /\ row.channel = channel}
       IN  IF Cardinality(motion_rows) # 1
           THEN /\ Fail("fetch1")
                /\ UNCHANGED corrected_scan
           ELSE /\ corrected_scan' = raster_corrected(motion_corrected(scan))
                /\ pc' = "correlation"
                /\ error' = ""
    /\ UNCHANGED notExtractVars
    /\ UNCHANGED <<Galvo, GalvoMotion, TargetStructure, ExtractRaw, Trace, GalvoSegmentation,
                   GalvoROI, SpikeRate, GalvoCorrelationImage, BackgroundComponents,
                   ARCoefficients, CNMFParameters, kwargs, channel_idx, slice_idx,
                   num_traces_until_now, cnmf_result, i, demixed>>

\* Lines 632-640: load the frames of (channel, slice) and correct them. The
\* motion correction is taken from the GalvoMotion row of this slice AND
\* channel with fetch1, which raises when there is no such row.
CorrectScan ==
    /\ pc = "correct"
    /\ LET scan == loaded_scan(channel, slice)
           motion_rows == {row \in Range(GalvoMotion) :
                              row.slice = slice /\ row.channel = channel}
       IN  IF Cardinality(motion_rows) # 1
           THEN /\ Fail("fetch1")
                /\ UNCHANGED corrected_scan
           ELSE /\ corrected_scan' = motion_corrected(raster_corrected(scan))
                /\ pc' = "correlation"
                /\ error' = ""
    /\ UNCHANGED notExtractVars
    /\ UNCHANGED <<Galvo, GalvoMotion, TargetStructure, ExtractRaw, Trace, GalvoSegmentation,
                   GalvoROI, SpikeRate, GalvoCorrelationImage, BackgroundComponents,
                   ARCoefficients, CNMFParameters, kwargs, channel_idx, slice_idx,
                   num_traces_until_now, cnmf_result, i, demixed>>

\* Lines 642-646: compute and insert the correlation image.
InsertCorrelationImage ==
    /\ pc = "correlation"
    /\ LET row == [channel |-> channel, slice |-> slice,
                   correlation_image |-> corrected_scan]
       IN  IF Duplicate(GalvoCorrelationImage, {"channel", "slice"}, row)
           THEN /\ Fail("DuplicateGalvoCorrelationImage")
                /\ UNCHANGED GalvoCorrelationImage
           ELSE /\ GalvoCorrelationImage' = GalvoCorrelationImage \cup {row}
                /\ pc' = "demix"
                /\ error' = ""
    /\ UNCHANGED notExtractVars
    /\ UNCHANGED <<Galvo, GalvoMotion, TargetStructure, ExtractRaw, Trace, GalvoSegmentation,
                   GalvoROI, SpikeRate, BackgroundComponents, ARCoefficients,
                   CNMFParameters, kwargs, channel_idx, slice_idx, num_traces_until_now,
                   corrected_scan, cnmf_result, i, demixed>>

\* What cmn.demix_and_deconvolve_with_cnmf can return for the frames of
\* (channel, slice): any number of components, one row per component in every
\* array. Row j of an array is named by the array, the call and j.
CnmfResult(ch, sl, location) ==
    LET n == Cardinality(DOMAIN location)
    IN  [location_matrix |-> location,
         raw_traces |-> [j \in 0 .. n - 1 |->
                            [array |-> "raw_traces", channel |-> ch, slice |-> sl, row |-> j]],
         spikes |-> [j \in 0 .. n - 1 |->
                        [array |-> "spikes", channel |-> ch, slice |-> sl, row |-> j]],
         AR_params |-> [j \in 0 .. n - 1 |->
                           [array |-> "AR_params", channel |-> ch, slice |-> sl, row |-> j]],
         background_location_matrix |->
             [array |-> "background_location_matrix", channel |-> ch, slice |-> sl],
         background_activity_matrix |->
             [array |-> "background_activity_matrix", channel |-> ch, slice |-> sl]]

\* The stacks of masks a demix call returns in the model: up to MaxComponents
\* components, their masks the sample masks in turn from any first one.
LocationMatrices ==
    {[k \in 0 .. n - 1 |-> SampleMasks[((k + first) % Len(SampleMasks)) + 1]] :
        n \in 0 .. MaxComponents, first \in 0 .. Len(SampleMasks) - 1}

\* raw_traces.shape[0]
final_num_components == Cardinality(DOMAIN cnmf_result.raw_traces)

\* Mutant: the exception of the demix routine caught, the slice taken as empty.
DemixExceptionCaught ==
    /\ pc = "demix"
    /\ \/ /\ cnmf_result' = CnmfResult(channel, slice, <<>>)
          /\ i' = 0
          /\ pc' = "components"
          /\ error' = "ExternalToolError"
          /\ UNCHANGED demixed
       \/ \E location \in LocationMatrices :
             /\ cnmf_result' = CnmfResult(channel, slice, location)
             /\ demixed' = demixed \cup {[channel |-> channel, slice |-> slice,
                                          corrected_scan |-> corrected_scan,
                                          kwargs |-> kwargs,
                                          result |-> cnmf_result']}
             /\ i' = 0
             /\ pc' = "components"
             /\ error' = ""
    /\ UNCHANGED notExtractVars
    /\ UNCHANGED <<Galvo, GalvoMotion, TargetStructure, ExtractRaw, Trace, GalvoSegmentation,
                   GalvoROI, SpikeRate, GalvoCorrelationImage, BackgroundComponents,
                   ARCoefficients, CNMFParameters, kwargs, channel_idx, slice_idx,
                   num_traces_until_now, corrected_scan>>
\* Lines 648-654: the demix call, which returns or raises.
Demix ==
    /\ pc = "demix"
    /\ \/ /\ Fail("ExternalToolError")
          /\ UNCHANGED <<cnmf_result, i, demixed>>
       \/ \E location \in LocationMatrices :
             /\ cnmf_result' = CnmfResult(channel, slice, location)
             /\ demixed' = demixed \cup {[channel |-> channel, slice |-> slice,
                                          corrected_scan |-> corrected_scan,
                                          kwargs |-> kwargs,
                                          result |-> cnmf_result']}
             /\ i' = 0
             /\ pc' = "components"
             /\ error' = ""
    /\ UNCHANGED notExtractVars
    /\ UNCHANGED <<Galvo, GalvoMotion, TargetStructure, ExtractRaw, Trace, GalvoSegmentation,
                   GalvoROI, SpikeRate, GalvoCorrelationImage, BackgroundComponents,
                   ARCoefficients, CNMFParameters, kwargs, channel_idx, slice_idx,
                   num_traces_until_now, corrected_scan>>

\* Mutant: the ids counted inside the slice, the running count ignored.
trace_id_within_slice(traces_until_now, component) == component + 1

\* Mutant: the ids left 0-based.
trace_id_0_based(traces_until_now, component) == traces_until_now + component

\* Line 657
trace_id_of(traces_until_now, component) == traces_until_now + component + 1

\* Mutant: no GalvoSegmentation row is inserted with the components.
InsertComponentWithoutSegmentation ==
    /\ pc = "components"
    /\ i < final_num_components
    /\ LET trace_id == trace_id_of(num_traces_until_now, i)
           trace_key == [trace_id |-> trace_id, channel |-> channel]
           trace_row == trace_key @@ [raw_trace |-> cnmf_result.raw_traces[i]]
           spike_row == trace_key @@ [spike_trace |-> cnmf_result.spikes[i]]
           ar_row == trace_key @@ [g |-> cnmf_result.AR_params[i]]
           mask == defined_mask(cnmf_result.location_matrix[i], Galvo.px_height,
                                Galvo.px_width)
           roi_row == trace_key @@ [slice |-> slice, mask_pixels |-> mask.mask_pixels,
                                    mask_weights |-> mask.mask_weights]
           trace_pk == {"channel", "trace_id"}
           failure ==
               IF Duplicate(Trace, trace_pk, trace_row) THEN "DuplicateTrace"
               ELSE IF Duplicate(SpikeRate, trace_pk, spike_row) THEN "DuplicateSpikeRate"
               ELSE IF kwargs.AR_order > 0 /\ Duplicate(ARCoefficients, trace_pk, ar_row)
                    THEN "DuplicateARCoefficients"
               ELSE IF Duplicate(GalvoROI, {"channel", "trace_id", "slice"}, roi_row)
                    THEN "DuplicateGalvoROI"
               ELSE ""
           reached(table) ==
               CASE failure = "" -> TRUE
                 [] failure = "DuplicateTrace" -> FALSE
                 [] failure = "DuplicateSpikeRate" -> table \in {"Trace"}
                 [] failure = "DuplicateARCoefficients" -> table \in {"Trace", "SpikeRate"}
                 [] failure = "DuplicateGalvoROI" ->
                        table \in {"Trace", "SpikeRate", "ARCoefficients",
                                   "GalvoSegmentation"}
       IN  /\ Trace' = IF reached("Trace") THEN Trace \cup {trace_row} ELSE Trace
           /\ SpikeRate' = IF reached("SpikeRate") THEN SpikeRate \cup {spike_row}
                           ELSE SpikeRate
           /\ ARCoefficients' = IF reached("ARCoefficients") /\ kwargs.AR_order > 0
                                THEN ARCoefficients \cup {ar_row} ELSE ARCoefficients
           /\ GalvoSegmentation' = GalvoSegmentation
           /\ GalvoROI' = IF reached("GalvoROI") THEN GalvoROI \cup {roi_row} ELSE GalvoROI
           /\ IF failure = ""
              THEN /\ i' = i + 1
                   /\ UNCHANGED <<pc, error>>
              ELSE /\ Fail(failure)
                   /\ UNCHANGED i
    /\ UNCHANGED notExtractVars
    /\ UNCHANGED <<Galvo, GalvoMotion, TargetStructure, ExtractRaw, GalvoCorrelationImage,
                   BackgroundComponents, CNMFParameters, kwargs, channel_idx, slice_idx,
                   num_traces_until_now, corrected_scan, cnmf_result, demixed>>

\* Mutant: the spike trace of the component not inserted.
InsertComponentWithoutSpikeRate ==
    /\ pc = "components"
    /\ i < final_num_components
    /\ LET trace_id == trace_id_of(num_traces_until_now, i)
           trace_key == [trace_id |-> trace_id, channel |-> channel]
           trace_row == trace_key @@ [raw_trace |-> cnmf_result.raw_traces[i]]
           spike_row == trace_key @@ [spike_trace |-> cnmf_result.spikes[i]]
           ar_row == trace_key @@ [g |-> cnmf_result.AR_params[i]]
           mask == defined_mask(cnmf_result.location_matrix[i], Galvo.px_height,
                                Galvo.px_width)
           roi_row == trace_key @@ [slice |-> slice, mask_pixels |-> mask.mask_pixels,
                                    mask_weights |-> mask.mask_weights]
           trace_pk == {"channel", "trace_id"}
           failure ==
               IF Duplicate(Trace, trace_pk, trace_row) THEN "DuplicateTrace"
               ELSE IF Duplicate(SpikeRate, trace_pk, spike_row) THEN "DuplicateSpikeRate"
               ELSE IF kwargs.AR_order > 0 /\ Duplicate(ARCoefficients, trace_pk, ar_row)
                    THEN "DuplicateARCoefficients"
               ELSE IF Duplicate(GalvoROI, {"channel", "trace_id", "slice"}, roi_row)
                    THEN "DuplicateGalvoROI"
               ELSE ""
           reached(table) ==
               CASE failure = "" -> TRUE
                 [] failure = "DuplicateTrace" -> FALSE
                 [] failure = "DuplicateSpikeRate" -> table \in {"Trace"}
                 [] failure = "DuplicateARCoefficients" -> table \in {"Trace", "SpikeRate"}
                 [] failure = "DuplicateGalvoROI" ->
                        table \in {"Trace", "SpikeRate", "ARCoefficients",
                                   "GalvoSegmentation"}
       IN  /\ Trace' = IF reached("Trace") THEN Trace \cup {trace_row} ELSE Trace
           /\ SpikeRate' = SpikeRate
           /\ ARCoefficients' = IF reached("ARCoefficients") /\ kwargs.AR_order > 0
                                THEN ARCoefficients \cup {ar_row} ELSE ARCoefficients
           \* insert1(..., skip_duplicates=True)
           /\ GalvoSegmentation' = IF reached("GalvoSegmentation")
                                   THEN GalvoSegmentation \cup {[slice |-> slice]}
                                   ELSE GalvoSegmentation
           /\ GalvoROI' = IF reached("GalvoROI") THEN GalvoROI \cup {roi_row} ELSE GalvoROI
           /\ IF failure = ""
              THEN /\ i' = i + 1
                   /\ UNCHANGED <<pc, error>>
              ELSE /\ Fail(failure)
                   /\ UNCHANGED i
    /\ UNCHANGED notExtractVars
    /\ UNCHANGED <<Galvo, GalvoMotion, TargetStructure, ExtractRaw, GalvoCorrelationImage,
                   BackgroundComponents, CNMFParameters, kwargs, channel_idx, slice_idx,
                   num_traces_until_now, corrected_scan, cnmf_result, demixed>>
\* Lines 655-679: the inserts for component i, in the order of the code; the
\* first insert that meets a duplicate key raises and the later ones are not
\* reached.
InsertComponent ==
    /\ pc = "components"
    /\ i < final_num_components
    /\ LET trace_id == trace_id_of(num_traces_until_now, i)
           trace_key == [trace_id |-> trace_id, channel |-> channel]
           trace_row == trace_key @@ [raw_trace |-> cnmf_result.raw_traces[i]]
           spike_row == trace_key @@ [spike_trace |-> cnmf_result.spikes[i]]
           ar_row == trace_key @@ [g |-> cnmf_result.AR_params[i]]
           mask == defined_mask(cnmf_result.location_matrix[i], Galvo.px_height,
                                Galvo.px_width)
           roi_row == trace_key @@ [slice |-> slice, mask_pixels |-> mask.mask_pixels,
                                    mask_weights |-> mask.mask_weights]
           trace_pk == {"channel", "trace_id"}
           failure ==
               IF Duplicate(Trace, trace_pk, trace_row) THEN "DuplicateTrace"
               ELSE IF Duplicate(SpikeRate, trace_pk, spike_row) THEN "DuplicateSpikeRate"
               ELSE IF kwargs.AR_order > 0 /\ Duplicate(ARCoefficients, trace_pk, ar_row)
                    THEN "DuplicateARCoefficients"
               ELSE IF Duplicate(GalvoROI, {"channel", "trace_id", "slice"}, roi_row)
                    THEN "DuplicateGalvoROI"
               ELSE ""
           reached(table) ==
               CASE failure = "" -> TRUE
                 [] failure = "DuplicateTrace" -> FALSE
                 [] failure = "DuplicateSpikeRate" -> table \in {"Trace"}
                 [] failure = "DuplicateARCoefficients" -> table \in {"Trace", "SpikeRate"}
                 [] failure = "DuplicateGalvoROI" ->
                        table \in {"Trace", "SpikeRate", "ARCoefficients",
                                   "GalvoSegmentation"}
       IN  /\ Trace' = IF reached("Trace") THEN Trace \cup {trace_row} ELSE Trace
           /\ SpikeRate' = IF reached("SpikeRate") THEN SpikeRate \cup {spike_row}
                           ELSE SpikeRate
           /\ ARCoefficients' = IF reached("ARCoefficients") /\ kwargs.AR_order > 0
                                THEN ARCoefficients \cup {ar_row} ELSE ARCoefficients
           \* insert1(..., skip_duplicates=True)
           /\ GalvoSegmentation' = IF reached("GalvoSegmentation")
                                   THEN GalvoSegmentation \cup {[slice |-> slice]}
                                   ELSE GalvoSegmentation
           /\ GalvoROI' = IF reached("GalvoROI") THEN GalvoROI \cup {roi_row} ELSE GalvoROI
           /\ IF failure = ""
              THEN /\ i' = i + 1
                   /\ UNCHANGED <<pc, error>>
              ELSE /\ Fail(failure)
                   /\ UNCHANGED i
    /\ UNCHANGED notExtractVars
    /\ UNCHANGED <<Galvo, GalvoMotion, TargetStructure, ExtractRaw, GalvoCorrelationImage,
                   BackgroundComponents, CNMFParameters, kwargs, channel_idx, slice_idx,
                   num_traces_until_now, corrected_scan, cnmf_result, demixed>>

\* Line 680: increase the trace count when the component loop ends.
IncreaseTraceCount ==
    /\ pc = "components"
    /\ i = final_num_components
    /\ num_traces_until_now' = num_traces_until_now + final_num_components
    /\ pc' = "background"
    /\ UNCHANGED notExtractVars
    /\ UNCHANGED <<Galvo, GalvoMotion, TargetStructure, ExtractRaw, Trace, GalvoSegmentation,
                   GalvoROI, SpikeRate, GalvoCorrelationImage, BackgroundComponents,
                   ARCoefficients, CNMFParameters, error, kwargs, channel_idx, slice_idx,
                   corrected_scan, cnmf_result, i, demixed>>

\* Mutant: no background row for a slice without components.
InsertBackgroundOfComponentsOnly ==
    /\ pc = "background"
    /\ LET background_dict == [channel |-> channel, slice |-> slice,
                               masks |-> cnmf_result.background_location_matrix,
                               activity |-> cnmf_result.background_activity_matrix]
       IN  IF Duplicate(BackgroundComponents, {"channel", "slice"}, background_dict)
           THEN /\ Fail("DuplicateBackgroundComponents")
                /\ UNCHANGED <<BackgroundComponents, channel_idx, slice_idx,
                               num_traces_until_now>>
           ELSE /\ BackgroundComponents' = IF final_num_components = 0
                                           THEN BackgroundComponents
                                           ELSE BackgroundComponents \cup {background_dict}
                /\ error' = ""
                /\ IF slice_idx < Len(scan_slices)
                   THEN /\ slice_idx' = slice_idx + 1
                        /\ pc' = "correct"
                        /\ UNCHANGED <<channel_idx, num_traces_until_now>>
                   ELSE IF channel_idx < Len(scan_channels)
                   THEN /\ channel_idx' = channel_idx + 1
                        /\ num_traces_until_now' = 0
                        /\ slice_idx' = 1
                        /\ pc' = "correct"
                   ELSE /\ pc' = "parameters"
                        /\ UNCHANGED <<channel_idx, slice_idx, num_traces_until_now>>
    /\ UNCHANGED notExtractVars
    /\ UNCHANGED <<Galvo, GalvoMotion, TargetStructure, ExtractRaw, Trace, GalvoSegmentation,
                   GalvoROI, SpikeRate, GalvoCorrelationImage, ARCoefficients,
                   CNMFParameters, kwargs, corrected_scan, cnmf_result, i, demixed>>
\* Lines 682-686 and the loop headers 629-632: insert the background
\* components, then enter the next slice of this channel, or the next channel
\* (trace count back to 0, line 630), or leave the loops.
InsertBackgroundComponents ==
    /\ pc = "background"
    /\ LET background_dict == [channel |-> channel, slice |-> slice,
                               masks |-> cnmf_result.background_location_matrix,
                               activity |-> cnmf_result.background_activity_matrix]
       IN  IF Duplicate(BackgroundComponents, {"channel", "slice"}, background_dict)
           THEN /\ Fail("DuplicateBackgroundComponents")
                /\ UNCHANGED <<BackgroundComponents, channel_idx, slice_idx,
                               num_traces_until_now>>
           ELSE /\ BackgroundComponents' = BackgroundComponents \cup {background_dict}
                /\ error' = ""
                /\ IF slice_idx < Len(scan_slices)
                   THEN /\ slice_idx' = slice_idx + 1
                        /\ pc' = "correct"
                        /\ UNCHANGED <<channel_idx, num_traces_until_now>>
                   ELSE IF channel_idx < Len(scan_channels)
                   THEN /\ channel_idx' = channel_idx + 1
                        /\ num_traces_until_now' = 0
                        /\ slice_idx' = 1
                        /\ pc' = "correct"
                   ELSE /\ pc' = "parameters"
                        /\ UNCHANGED <<channel_idx, slice_idx, num_traces_until_now>>
    /\ UNCHANGED notExtractVars
    /\ UNCHANGED <<Galvo, GalvoMotion, TargetStructure, ExtractRaw, Trace, GalvoSegmentation,
                   GalvoROI, SpikeRate, GalvoCorrelationImage, ARCoefficients,
                   CNMFParameters, kwargs, corrected_scan, cnmf_result, i, demixed>>

\* Mutant: the argument names stored as they were passed.
kwargs_as_passed(kw) == kw

\* key.lower() of the argument names: only AR_order has upper case letters.
lowercase_kwargs(kw) ==
    [name \in (DOMAIN kw \ {"AR_order"}) \cup {"ar_order"} |->
        IF name = "ar_order" THEN kw["AR_order"] ELSE kw[name]]

\* Lines 688-690: insert the CNMF parameters (one row per run).
InsertCNMFParameters ==
    /\ pc = "parameters"
    /\ IF CNMFParameters # {}
       THEN /\ Fail("DuplicateCNMFParameters")
            /\ UNCHANGED CNMFParameters
       ELSE /\ CNMFParameters' = {lowercase_kwargs(kwargs)}
            /\ pc' = "done"
            /\ error' = ""
    /\ UNCHANGED notExtractVars
    /\ UNCHANGED <<Galvo, GalvoMotion, TargetStructure, ExtractRaw, Trace, GalvoSegmentation,
                   GalvoROI, SpikeRate, GalvoCorrelationImage, BackgroundComponents,
                   ARCoefficients, kwargs, channel_idx, slice_idx, num_traces_until_now,
                   corrected_scan, cnmf_result, i, demixed>>

Next ==
    \/ InsertKey
    \/ CorrectScan
    \/ InsertCorrelationImage
    \/ Demix
    \/ InsertComponent
    \/ IncreaseTraceCount
    \/ InsertBackgroundComponents
    \/ InsertCNMFParameters

Spec == Init /\ [][Next]_vars

-----------------------------------------------------------------------------
(* Claims about ExtractRaw._make_tuples, under Spec *)

\* Components the demix routine returned for (ch, sl), 0 when it was not called.
returned_components(ch, sl) ==
    LET calls == {d \in demixed : d.channel = ch /\ d.slice = sl}
    IN  IF calls = {} THEN 0
        ELSE Cardinality(DOMAIN (CHOOSE d \in calls : TRUE).result.raw_traces)

RECURSIVE components_before(_, _)
components_before(ch, sl) ==
    IF sl <= 1 THEN 0
    ELSE returned_components(ch, sl - 1) + components_before(ch, sl - 1)

\* C1: no two Trace rows of a channel share a trace_id, the run never tries to
\* give a trace_id of a channel to a second component, and within a channel the
\* trace_ids grow strictly with the slice (and, inside a slice, with the
\* component).
C1_TraceIdsUniqueIncreasing ==
    /\ \A t1, t2 \in Trace :
          (t1.channel = t2.channel /\ t1.trace_id = t2.trace_id) => t1 = t2
    /\ error \notin {"DuplicateTrace", "DuplicateSpikeRate", "DuplicateARCoefficients",
                     "DuplicateGalvoROI"}
    /\ \A t1, t2 \in Trace :
          (/\ t1.channel = t2.channel
           /\ \/ t1.raw_trace.slice < t2.raw_trace.slice
              \/ /\ t1.raw_trace.slice = t2.raw_trace.slice
                 /\ t1.raw_trace.row < t2.raw_trace.row)
          => t1.trace_id < t2.trace_id
    /\ \A r1, r2 \in GalvoROI :
          (r1.channel = r2.channel /\ r1.slice < r2.slice) => r1.trace_id < r2.trace_id

\* C1 witness: one channel holds traces of two slices, several in the first.
C1_Witness ==
    \E t1, t2, t3 \in Trace :
        /\ t1.channel = t2.channel /\ t2.channel = t3.channel
        /\ t1.raw_trace.slice = 1 /\ t2.raw_trace.slice = 1 /\ t1 # t2
        /\ t3.raw_trace.slice = 2

\* C2: the trace_id of component i of a slice is the number of components found
\* in the earlier slices of the channel, plus i, plus 1; the count is 0 when a
\* channel iteration starts; the ids of a channel are 1..N without gaps.
C2_TraceIdFormula ==
    /\ \A t \in Trace :
          t.trace_id = components_before(t.channel, t.raw_trace.slice) + t.raw_trace.row + 1
    /\ (pc = "correct" /\ slice_idx = 1) => num_traces_until_now = 0
    /\ \A ch \in 1 .. MaxChannels :
          LET ids == {t.trace_id : t \in {u \in Trace : u.channel = ch}}
          IN  ids = 1 .. Cardinality(ids)
    /\ pc = "background" =>
          /\ num_traces_until_now = components_before(channel, slice + 1)
          /\ num_traces_until_now = Cardinality({t \in Trace : t.channel = channel})

\* C2 witness: a component of the second slice got an id that carries the
\* count of the first slice.
C2_Witness ==
    \E t \in Trace :
        /\ t.raw_trace.slice = 2
        /\ t.raw_trace.row = 1
        /\ components_before(t.channel, 2) = 2
        /\ t.trace_id = 4

\* C6 (as claimed): a completed run holds, for every channel and slice of the
\* scan, a correlation image and one Trace row per component returned, row i of
\* the raw traces in the row of component i.
C6_EveryChannelAndSliceExtracted ==
    pc = "done" =>
        \A ch \in 1 .. Galvo.nchannels, sl \in 1 .. Galvo.nslices :
            /\ \E c \in GalvoCorrelationImage : c.channel = ch /\ c.slice = sl
            /\ \E d \in demixed :
                  /\ d.channel = ch /\ d.slice = sl
                  /\ \A j \in DOMAIN d.result.raw_traces :
                        \E t \in Trace : /\ t.channel = ch
                                         /\ t.raw_trace = d.result.raw_traces[j]
            /\ Cardinality({t \in Trace : t.channel = ch /\ t.raw_trace.slice = sl})
                   = returned_components(ch, sl)

-----------------------------------------------------------------------------
(* The mask utilities: masks are stored by ExtractRaw._make_tuples and read *)
(* back by ExtractRaw.get_all_masks.                                        *)

\* The variables of the extraction run while no run is modelled.
TablesIdle ==
    /\ ExtractRaw = {key}
    /\ Trace = {}
    /\ GalvoSegmentation = {}
    /\ SpikeRate = {}
    /\ GalvoCorrelationImage = {}
    /\ BackgroundComponents = {}
    /\ ARCoefficients = {}
    /\ CNMFParameters = {}

LocalsIdle ==
    /\ pc = "idle"
    /\ error = ""
    /\ kwargs = <<>>
    /\ channel_idx = 1
    /\ slice_idx = 1
    /\ num_traces_until_now = 0
    /\ corrected_scan = <<>>
    /\ cnmf_result = <<>>
    /\ i = 0
    /\ demixed = {}

RunIdle ==
    /\ GalvoMotion = <<>>
    /\ TargetStructure = FALSE
    /\ TablesIdle
    /\ LocalsIdle

\* Any image of up to px_height x px_width pixels with weights in Weights is a
\* mask the demix routine can return.
MasksInit ==
    /\ RunIdle
    /\ FillIdle /\ EstimateIdle /\ RasterIdle /\ ComputeIdle /\ SpikesIdle
    /\ EyeIdle /\ NotnanIdle
    /\ \E h \in 1 .. px_height, w \in 1 .. px_width :
          /\ Galvo = [px_height |-> h, px_width |-> w]
          /\ location_matrix \in [0 .. 0 -> Images(h, w, Weights)]
    /\ GalvoROI = {}
    /\ ret = <<>>
    /\ reextracted = <<>>
    /\ video_key = <<>>
    /\ activity_matrix = <<>>
    /\ masks_pc = "demixed"

\* Lines 668-679 of ExtractRaw._make_tuples for the components of
\* location_matrix, which get the trace ids 1, 2, ... of channel 1, slice 1.
InsertGalvoROI ==
    /\ masks_pc = "demixed"
    /\ GalvoROI' = {[trace_id |-> k + 1, channel |-> 1, slice |-> 1]
                    @@ defined_mask(location_matrix[k], Galvo.px_height, Galvo.px_width) :
                        k \in DOMAIN location_matrix}
    /\ masks_pc' = "stored"
    /\ UNCHANGED notMaskVars
    /\ UNCHANGED <<Galvo, runVars, location_matrix, ret, reextracted, video_key,
                   activity_matrix>>

\* ExtractRaw.get_all_masks(slice, channel), lines 857-871.
get_all_masks(sl, ch) ==
    LET mask_rel == {r \in GalvoROI : r.slice = sl /\ r.channel = ch}
        fetched == order_by_trace_id(mask_rel)
        mask_pixels == [k \in DOMAIN fetched |-> fetched[k].mask_pixels]
        mask_weights == [k \in DOMAIN fetched |-> fetched[k].mask_weights]
    IN  reshape_masks(mask_pixels, mask_weights, Galvo.px_height, Galvo.px_width)

GetAllMasks ==
    /\ masks_pc = "stored"
    /\ ret' = get_all_masks(1, 1)
    /\ masks_pc' = "reshaped"
    /\ UNCHANGED notMaskVars
    /\ UNCHANGED <<Galvo, runVars, GalvoROI, location_matrix, reextracted, video_key,
                   activity_matrix>>

\* The extraction of lines 669-672 applied to every mask of ret.
ReExtract ==
    /\ masks_pc = "reshaped"
    /\ reextracted' = [k \in DOMAIN ret |->
                          defined_mask(ret[k], Galvo.px_height, Galvo.px_width)]
    /\ masks_pc' = "reextracted"
    /\ UNCHANGED notMaskVars
    /\ UNCHANGED <<Galvo, runVars, GalvoROI, location_matrix, ret, video_key,
                   activity_matrix>>

MasksNext ==
    \/ InsertGalvoROI
    \/ GetAllMasks
    \/ ReExtract

SpecMasks == MasksInit /\ [][MasksNext]_vars

\* C3: reshape_masks followed by the re-extraction gives back the stored index
\* list and weight list of every mask.
C3_MaskRoundTrip ==
    masks_pc = "reextracted" =>
        /\ DOMAIN reextracted = 0 .. Cardinality(GalvoROI) - 1
        /\ \A r \in GalvoROI :
              /\ reextracted[r.trace_id - 1].mask_pixels = r.mask_pixels
              /\ reextracted[r.trace_id - 1].mask_weights = r.mask_weights

\* C3 witness: the round trip was made for a mask of several pixels with
\* unequal weights in an image of more than one row and column.
C3_Witness ==
    /\ masks_pc = "reextracted"
    /\ Galvo.px_height > 1 /\ Galvo.px_width > 1
    /\ \E r \in GalvoROI :
          /\ Len(r.mask_pixels) >= 2
          /\ r.mask_weights[1] # r.mask_weights[2]
          /\ reextracted[r.trace_id - 1].mask_pixels = r.mask_pixels

\* C4: the pixel indices of a stored mask lie in 1..image_height*image_width
\* and increase strictly; mask_weights has the same length and no zero.
C4_MaskPixelsInRange ==
    \A r \in GalvoROI :
        /\ \A j \in DOMAIN r.mask_pixels :
              /\ r.mask_pixels[j] >= 1
              /\ r.mask_pixels[j] <= Galvo.px_height * Galvo.px_width
        /\ \A j, k \in DOMAIN r.mask_pixels : j < k => r.mask_pixels[j] < r.mask_pixels[k]
        /\ Len(r.mask_weights) = Len(r.mask_pixels)
        /\ \A j \in DOMAIN r.mask_weights : r.mask_weights[j] # 0

\* C4 witness: a stored mask that covers the first and the last pixel.
C4_Witness ==
    \E r \in GalvoROI :
        /\ Len(r.mask_pixels) >= 2
        /\ r.mask_pixels[1] = 1
        /\ r.mask_pixels[Len(r.mask_pixels)] = Galvo.px_height * Galvo.px_width

-----------------------------------------------------------------------------
(* fill_nans *)

\* An array element is NaN or a number num / den; the numbers of the model are
\* exact, the code's are floating point.
NaN == [nan |-> TRUE, num |-> 0, den |-> 1]
Number(v) == [nan |-> FALSE, num |-> v, den |-> 1]
isnan(element) == element.nan

\* 1-D arrays of 0..MaxLen elements.
Arrays(elements) == UNION {[0 .. n - 1 -> elements] : n \in 0 .. MaxLen}
len(array) == Cardinality(DOMAIN array)

\* mask.nonzero()[0]: the positions where the condition holds, ascending.
nonzero(array, Holds(_)) == SelectSeq([j \in 1 .. len(array) |-> j - 1], Holds)

\* np.interp(xq, xp, fp) at one point xq, for increasing integers xp and
\* integers fp: fp at the ends beyond xp, linear inside.
interp(xq, xp, fp) ==
    IF xq <= xp[1] THEN Number(fp[1])
    ELSE IF xq >= xp[Len(xp)] THEN Number(fp[Len(fp)])
    ELSE LET j == CHOOSE j \in 1 .. Len(xp) - 1 : xp[j] <= xq /\ xq < xp[j + 1]
             width == xp[j + 1] - xp[j]
         IN  [nan |-> FALSE,
              num |-> fp[j] * width + (fp[j + 1] - fp[j]) * (xq - xp[j]),
              den |-> width]

\* Mutant: every NaN set to 0, whether or not a value is defined.
fill_nans_with_zeros(array) ==
    [k \in DOMAIN array |-> IF isnan(array[k]) THEN Number(0) ELSE array[k]]

\* fill_nans, lines 31-39.
fill_nans(array) ==
    LET is_nan(k) == isnan(array[k])
        not_nan(k) == ~isnan(array[k])
        nans == nonzero(array, is_nan)
        defined == nonzero(array, not_nan)
        values == [j \in DOMAIN defined |-> array[defined[j]].num]
        all_nan == \A k \in DOMAIN array : isnan(array[k])
    IN  [k \in DOMAIN array |->
            IF ~isnan(array[k]) THEN array[k]
            ELSE IF all_nan THEN Number(0)
            ELSE interp(k, defined, values)]

ExtractIdle ==
    /\ RunIdle
    /\ Galvo = <<>>
    /\ GalvoROI = {}

FillInit ==
    /\ ExtractIdle
    /\ MasksIdle /\ EstimateIdle /\ RasterIdle /\ ComputeIdle /\ SpikesIdle
    /\ EyeIdle /\ NotnanIdle
    /\ x_input \in Arrays({NaN} \cup {Number(v) : v \in 0 .. MaxValue})
    /\ x_array = x_input
    /\ fill_pc = "call"

FillNans ==
    /\ fill_pc = "call"
    /\ x_array' = fill_nans(x_array)
    /\ fill_pc' = "returned"
    /\ UNCHANGED x_input
    /\ UNCHANGED notFillVars

FillNext == FillNans

SpecFill == FillInit /\ [][FillNext]_vars

\* The nearest defined positions left and right of k in the array passed.
defined_left(k) == {l \in DOMAIN x_input : l < k /\ ~isnan(x_input[l])}
defined_right(k) == {r \in DOMAIN x_input : r > k /\ ~isnan(x_input[r])}
nearest_left(k) == CHOOSE l \in defined_left(k) : \A other \in defined_left(k) : other <= l
nearest_right(k) == CHOOSE r \in defined_right(k) : \A other \in defined_right(k) : r <= other

\* x_array[k] lies on the line through the nearest defined neighbours of k.
interpolated(k) ==
    LET l == nearest_left(k)
        r == nearest_right(k)
    IN  /\ ~isnan(x_array[k])
        /\ x_array[k].num * (r - l) =
               x_array[k].den * (x_input[l].num * (r - k) + x_input[r].num * (k - l))

all_nan_input == \A k \in DOMAIN x_input : isnan(x_input[k])

\* C7 (as claimed): an all-NaN array becomes all zeros; otherwise every NaN
\* position has a defined neighbour on each side and gets the linear
\* interpolation between the nearest ones, and defined positions keep their value.
C7_EveryNanInterpolated ==
    fill_pc = "returned" =>
        /\ DOMAIN x_array = DOMAIN x_input
        /\ IF all_nan_input
           THEN \A k \in DOMAIN x_array : x_array[k] = Number(0)
           ELSE \A k \in DOMAIN x_array :
                   IF isnan(x_input[k])
                   THEN /\ defined_left(k) # {}
                        /\ defined_right(k) # {}
                        /\ interpolated(k)
                   ELSE x_array[k] = x_input[k]

\* C7 (amended): as claimed for the NaN positions that have a defined value on
\* both sides; a NaN position before the first defined value gets the first
\* defined value and one after the last defined value gets the last one.
C7_NansFilled ==
    fill_pc = "returned" =>
        /\ DOMAIN x_array = DOMAIN x_input
        /\ IF all_nan_input
           THEN \A k \in DOMAIN x_array : x_array[k] = Number(0)
           ELSE \A k \in DOMAIN x_array :
                   IF ~isnan(x_input[k]) THEN x_array[k] = x_input[k]
                   ELSE IF defined_left(k) = {} THEN x_array[k] = x_input[nearest_right(k)]
                   ELSE IF defined_right(k) = {} THEN x_array[k] = x_input[nearest_left(k)]
                   ELSE interpolated(k)

\* C7 witness: an array with a NaN before the first defined value, a NaN gap
\* of two between unequal values, filled.
C7_Witness ==
    /\ fill_pc = "returned"
    /\ len(x_input) = 4
    /\ isnan(x_input[0]) /\ ~isnan(x_input[1]) /\ isnan(x_input[2]) /\ ~isnan(x_input[3])
    /\ x_input[1] # x_input[3]

-----------------------------------------------------------------------------
(* Prepare.Galvo.estimate_num_components_per_slice *)

\* Slices of 1..MaxMicrons micrometers each way, with and without a target
\* structure.
EstimateInit ==
    /\ GalvoMotion = <<>>
    /\ TablesIdle /\ LocalsIdle
    /\ MasksIdle /\ FillIdle /\ RasterIdle /\ ComputeIdle /\ SpikesIdle
    /\ EyeIdle /\ NotnanIdle
    /\ Galvo \in [um_width : 1 .. MaxMicrons, um_height : 1 .. MaxMicrons]
    /\ TargetStructure \in BOOLEAN
    /\ GalvoROI = {}
    /\ estimated_components = 0
    /\ estimate_pc = "call"

EstimateNumComponents ==
    /\ estimate_pc = "call"
    /\ estimated_components' =
           estimate_num_components_per_slice(Galvo.um_width, Galvo.um_height,
                                             TargetStructure)
    /\ estimate_pc' = "returned"
    /\ UNCHANGED <<Galvo, TargetStructure>>
    /\ UNCHANGED notEstimateVars

EstimateNext == EstimateNumComponents

SpecEstimate == EstimateInit /\ [][EstimateNext]_vars

\* The estimate never decreases when the slice volume grows.
estimate_monotone ==
    \A w \in 1 .. MaxMicrons, h \in 1 .. MaxMicrons :
        slice_volume(w, h) >= slice_volume(Galvo.um_width, Galvo.um_height) =>
            estimate_num_components_per_slice(w, h, TargetStructure) >= estimated_components

\* The estimates of this slice without and with a target structure.
somatic_estimate ==
    IF TargetStructure
    THEN estimate_num_components_per_slice(Galvo.um_width, Galvo.um_height, FALSE)
    ELSE estimated_components
axonal_estimate ==
    IF TargetStructure
    THEN estimated_components
    ELSE estimate_num_components_per_slice(Galvo.um_width, Galvo.um_height, TRUE)

\* C8 (as claimed): the estimate grows with the slice volume and the estimate
\* with a target structure is exactly 10 times the one without.
C8_ExactlyTenTimes ==
    estimate_pc = "returned" =>
        /\ estimate_monotone
        /\ axonal_estimate = 10 * somatic_estimate

\* C8 (amended): the estimate never decreases when the slice volume grows; it
\* is the integer nearest to volume * 0.0001 (somatic) or volume * 0.001
\* (axonal/dendritic), so the axonal estimate is 10 times the somatic one when
\* volume * 0.0001 is an integer and within 5 of it otherwise.
C8_TenTimesBeforeRounding ==
    estimate_pc = "returned" =>
        LET volume == slice_volume(Galvo.um_width, Galvo.um_height)
            per_component == IF TargetStructure THEN axonal_volume_per_component
                             ELSE somatic_volume_per_component
            difference == axonal_estimate - 10 * somatic_estimate
        IN  /\ estimate_monotone
            /\ 2 * (estimated_components * per_component - volume) <= per_component
            /\ 2 * (volume - estimated_components * per_component) <= per_component
            /\ difference <= 5 /\ difference >= -5
            /\ volume % somatic_volume_per_component = 0 => difference = 0

\* C8 witness: a slice whose estimates are both positive and differ by
\* exactly the factor 10.
C8_Witness ==
    /\ estimate_pc = "returned"
    /\ TargetStructure
    /\ somatic_estimate = 1
    /\ estimated_components = 10

-----------------------------------------------------------------------------
(* Prepare.Galvo.get_correct_raster *)

\* Frames are a list of pixels; a pixel has the array's dtype and a value.
Pixels(dtype) == [dtype : {dtype}, value : 0 .. MaxPixel]
Frames(dtype) == UNION {[1 .. n -> Pixels(dtype)] : n \in 1 .. MaxFrames}

\* np.double(scan): the same values as float64.
double(frames) == [k \in DOMAIN frames |-> [dtype |-> "float64", value |-> frames[k].value]]

\* Mutant: the raster correction skipped for every phase but 0.
get_correct_raster_test_inverted(galvo) ==
    IF galvo.raster_phase # 0
    THEN [function |-> "np.double"]
    ELSE [function |-> "galvo_corrections.correct_raster",
          raster_phase |-> galvo.raster_phase, fill_fraction |-> galvo.fill_fraction]

\* get_correct_raster, lines 95-105: the function returned, with the values it
\* has captured.
get_correct_raster(galvo) ==
    IF galvo.raster_phase = 0
    THEN [function |-> "np.double"]
    ELSE [function |-> "galvo_corrections.correct_raster",
          raster_phase |-> galvo.raster_phase, fill_fraction |-> galvo.fill_fraction]

\* raster_phase and fill_fraction in tenths.
RasterInit ==
    /\ GalvoMotion = <<>>
    /\ TargetStructure = FALSE
    /\ TablesIdle /\ LocalsIdle
    /\ MasksIdle /\ FillIdle /\ EstimateIdle /\ ComputeIdle /\ SpikesIdle
    /\ EyeIdle /\ NotnanIdle
    /\ Galvo \in [raster_phase : {-1, 0, 1}, fill_fraction : {7, 9}]
    /\ GalvoROI = {}
    /\ raster_scan \in Frames("int16")
    /\ correct_raster = <<>>
    /\ raster_result = <<>>
    /\ correct_raster_calls = <<>>
    /\ raster_pc = "start"

GetCorrectRaster ==
    /\ raster_pc = "start"
    /\ correct_raster' = get_correct_raster(Galvo)
    /\ raster_pc' = "got"
    /\ UNCHANGED <<Galvo, raster_scan, raster_result, correct_raster_calls>>
    /\ UNCHANGED notRasterVars

\* correct_raster(scan): the lambda of line 102 or the one of lines 104-105,
\* whose result is whatever galvo_corrections.correct_raster returns.
CallCorrectRaster ==
    /\ raster_pc = "got"
    /\ IF correct_raster.function = "np.double"
       THEN /\ raster_result' = double(raster_scan)
            /\ UNCHANGED correct_raster_calls
       ELSE \E returned \in {frames \in Frames("float64") :
                                 Len(frames) = Len(raster_scan)} :
               /\ correct_raster_calls' =
                      Append(correct_raster_calls,
                             [scan |-> raster_scan,
                              raster_phase |-> correct_raster.raster_phase,
                              fill_fraction |-> correct_raster.fill_fraction,
                              returned |-> returned])
               /\ raster_result' = returned
    /\ raster_pc' = "corrected"
    /\ UNCHANGED <<Galvo, raster_scan, correct_raster>>
    /\ UNCHANGED notRasterVars

RasterNext ==
    \/ GetCorrectRaster
    \/ CallCorrectRaster

SpecRaster == RasterInit /\ [][RasterNext]_vars

\* C9: with raster_phase 0 the frames come back with every value unchanged, as
\* floating point, and the raster-correction routine is not called; with any
\* other raster_phase the routine is called once with the frames, the stored
\* raster_phase and fill_fraction, and its result is returned.
C9_RasterPhaseZeroIsCast ==
    raster_pc = "corrected" =>
        IF Galvo.raster_phase = 0
        THEN /\ correct_raster_calls = <<>>
             /\ Len(raster_result) = Len(raster_scan)
             /\ \A k \in DOMAIN raster_scan :
                    /\ raster_result[k].value = raster_scan[k].value
                    /\ raster_result[k].dtype = "float64"
        ELSE /\ Len(correct_raster_calls) = 1
             /\ correct_raster_calls[1].scan = raster_scan
             /\ correct_raster_calls[1].raster_phase = Galvo.raster_phase
             /\ correct_raster_calls[1].fill_fraction = Galvo.fill_fraction
             /\ raster_result = correct_raster_calls[1].returned

\* C9 witness: frames of several unequal pixels went through the function
\* returned for raster_phase 0.
C9_Witness ==
    /\ raster_pc = "corrected"
    /\ Galvo.raster_phase = 0
    /\ Len(raster_scan) >= 2
    /\ raster_scan[1].value # raster_scan[2].value
    /\ raster_result = double(raster_scan)

-----------------------------------------------------------------------------
(* ComputeTraces._make_tuples *)

\* x[index] of Python: a negative index counts from the end, an index outside
\* -len..len-1 raises IndexError.
in_index_range(array, index) == -len(array) <= index /\ index < len(array)
item(array, index) == IF index < 0 THEN array[index + len(array)] ELSE array[index]

\* Mutant: the bounds are tested before the element is read.
RECURSIVE notnan_bounds_first(_, _, _)
notnan_bounds_first(array, start, increment) ==
    IF 0 <= start /\ start < len(array) /\ isnan(item(array, start))
    THEN notnan_bounds_first(array, start + increment, increment)
    ELSE [raised |-> "", value |-> start]

\* notnan, lines 25-28. The element is read before the bounds are tested.
RECURSIVE notnan(_, _, _)
notnan(array, start, increment) ==
    IF ~in_index_range(array, start) THEN [raised |-> "IndexError", value |-> start]
    ELSE IF isnan(item(array, start)) /\ 0 <= start /\ start < len(array)
    THEN notnan(array, start + increment, increment)
    ELSE [raised |-> "", value |-> start]

\* The positions of array[start:end] for a start >= 0.
slice_positions(array, start, end) ==
    LET stop == IF end < 0 THEN end + len(array) ELSE end
    IN  {k \in DOMAIN array : start <= k /\ k < stop}

\* gt * bt
product(gt, bt) ==
    [k \in DOMAIN gt |-> IF isnan(gt[k]) \/ isnan(bt[k]) THEN NaN
                         ELSE Number(gt[k].num * bt[k].num)]

\* The slopes stats.linregress can return for the filtered traces; NaN when the
\* filtered green trace is constant or holds a NaN.
Slopes == {"negative", "zero", "positive", "nan"}

\* What stats.linregress does for the filtered x = gt[start:end] and
\* y = bt[start:end], lines 946-947: a NaN in either trace goes through the
\* filters into the fit and the slope is NaN; empty traces are refused or
\* give NaN; anything else can give any slope.
linregress(gt, bt, start, end) ==
    LET positions == slice_positions(gt, start, end)
    IN  IF positions = {} THEN {"ValueError", "nan"}
        ELSE IF \E k \in positions : isnan(gt[k]) \/ isnan(bt[k]) THEN {"nan"}
        ELSE Slopes

\* estimate_twitch_ratio, lines 933-949: df2 / df1 / slope with the slope of
\* the fit, or -1 for a slope >= 0. The ratio is kept as the slope it divides by.
estimate_twitch_ratio(fitted_slope) ==
    [slope |-> IF fitted_slope \in {"zero", "positive"} THEN "minus one" ELSE fitted_slope]

\* Mutant: x starts as zeros, not as NaN.
unmixed_from_zeros(gt, bt, start, end, gamma) ==
    [k \in DOMAIN gt |->
        IF k \notin slice_positions(gt, start, end) THEN Number(0)
        ELSE IF isnan(gt[k]) \/ isnan(bt[k]) THEN NaN
        ELSE IF gt[k].num + bt[k].num = 0 THEN NaN
        ELSE IF gamma.slope = "nan" THEN NaN
        ELSE [nan |-> FALSE, green |-> gt[k].num, blue |-> bt[k].num,
              gamma |-> gamma.slope]]
\* Lines 995-998: x is NaN outside start:end; inside, the unmixed value of
\* green and blue, which is NaN where either is NaN, where green + blue = 0
\* (r is not finite) and everywhere when gamma is NaN.
unmixed(gt, bt, start, end, gamma) ==
    [k \in DOMAIN gt |->
        IF k \notin slice_positions(gt, start, end) THEN NaN
        ELSE IF isnan(gt[k]) \/ isnan(bt[k]) THEN NaN
        ELSE IF gt[k].num + bt[k].num = 0 THEN NaN
        ELSE IF gamma.slope = "nan" THEN NaN
        ELSE [nan |-> FALSE, green |-> gt[k].num, blue |-> bt[k].num,
              gamma |-> gamma.slope]]

\* experiment.PMTFilterSet.Channel for '2P3 blue-green A': the pmt_channel of
\* each color.
filters == [green |-> 1, blue |-> 2]

\* (ExtractRaw.Trace() & key).proj(trace='raw_trace').fetch.as_dict with the
\* channel popped: the rows in primary key order (channel, trace_id).
RECURSIVE fetch_as_dict(_)
fetch_as_dict(rows) ==
    IF rows = {} THEN <<>>
    ELSE LET first == CHOOSE r \in rows : \A other \in rows :
                          \/ r.channel < other.channel
                          \/ r.channel = other.channel /\ r.trace_id <= other.trace_id
         IN  <<first>> \o fetch_as_dict(rows \ {first})

remove_channel(row) == [trace_id |-> row.trace_id, trace |-> row.raw_trace]

\* The list up to, not including, the first row whose trace_id is already in
\* the table or earlier in the list; the whole list when there is none.
RECURSIVE before_duplicate(_, _)
before_duplicate(rows, taken) ==
    IF rows = <<>> \/ Head(rows).trace_id \in taken THEN <<>>
    ELSE <<Head(rows)>> \o before_duplicate(Tail(rows), taken \cup {Head(rows).trace_id})

\* (green * blue).fetch['trace_id', 'green_trace', 'blue_trace']: the trace
\* ids with a Trace row in both channels, ascending.
green_blue(traces) ==
    LET green == {t \in traces : t.channel = filters.green}
        blue == {t \in traces : t.channel = filters.blue}
    IN  order_by_trace_id(
            {[trace_id |-> t[1].trace_id, green_trace |-> t[1].raw_trace,
              blue_trace |-> t[2].raw_trace] :
                 t \in {p \in green \X blue : p[1].trace_id = p[2].trace_id}})
\* The traces of a run have the same number of timesteps, at least two, so
\* that squeeze() leaves a vector.
TraceValues == {NaN, Number(0), Number(1)}
Timeseries(n) == [0 .. n - 1 -> TraceValues]
ones(n) == [k \in 0 .. n - 1 |-> Number(1)]

\* The ExtractRaw.Trace tables of the model, for traces of n timesteps: the
\* traces of the green and of the blue channel, where trace 1 is any series or
\* missing and trace 2 is a series of ones or missing.
TraceTables(n) ==
    LET first(c) == {{}} \cup {{[channel |-> c, trace_id |-> 1, raw_trace |-> series]} :
                                  series \in Timeseries(n)}
    IN  {green \cup blue \cup
         {[channel |-> c, trace_id |-> 2, raw_trace |-> ones(n)] : c \in second} :
            green \in first(filters.green), blue \in first(filters.blue),
            second \in SUBSET {filters.green, filters.blue}}

ComputeInit ==
    /\ ExtractRaw = {key}
    /\ \E n \in 2 .. MaxTimesteps : Trace \in TraceTables(n)
    /\ Fluorophore \in {"GCaMP6f", "Twitch2B"}
    /\ ComputeTraces = {}
    /\ ComputeTracesTrace = {}
    /\ compute_pc = "start"
    /\ compute_error = ""
    /\ pairs = <<>>
    /\ twitch_slope = ""
    /\ twitch_ratio = <<>>
    /\ window = <<>>
    /\ printed = <<>>
    /\ Galvo = [nchannels |-> MaxChannels, nslices |-> 1, px_height |-> px_height,
                px_width |-> px_width, um_width |-> 50, um_height |-> 30]
    /\ GalvoMotion = <<>> /\ TargetStructure = FALSE
    /\ GalvoSegmentation = {} /\ SpikeRate = {} /\ GalvoCorrelationImage = {}
    /\ BackgroundComponents = {} /\ ARCoefficients = {} /\ CNMFParameters = {}
    /\ GalvoROI = {}
    /\ LocalsIdle /\ MasksIdle /\ FillIdle /\ EstimateIdle /\ RasterIdle /\ SpikesIdle
    /\ EyeIdle /\ NotnanIdle

\* Line 952: nothing is computed for a run without raw traces.
NoRawTraces ==
    /\ compute_pc = "start"
    /\ Trace = {}
    /\ compute_pc' = "done"
    /\ UNCHANGED <<ExtractRaw, Trace, Fluorophore, ComputeTraces, ComputeTracesTrace,
                   compute_error, pairs, twitch_slope, twitch_ratio, window, printed,
                   notComputeVars>>

\* Lines 952-961 and 964-985: the master tuple is inserted before the traces.
InsertComputeTraces ==
    /\ compute_pc = "start"
    /\ Trace # {}
    /\ ComputeTraces' = ComputeTraces \cup {key}
    /\ IF Fluorophore # "Twitch2B"
       THEN /\ compute_pc' = "copy"
            /\ pairs' = pairs
            /\ printed' = Append(printed, [kind |-> "print", text |-> "Populating"])
       ELSE /\ compute_pc' = "unmix"
            /\ pairs' = green_blue(Trace)
            /\ printed' = printed
    /\ UNCHANGED <<ExtractRaw, Trace, Fluorophore, ComputeTracesTrace, compute_error,
                   twitch_slope, twitch_ratio, window, notComputeVars>>

\* Lines 962-963: one insert of the raw traces without their channel. A
\* trace_id that occurs twice is a duplicate primary key: the insert raises,
\* and the rows before the duplicate are kept when the rows are inserted one
\* by one and dropped when they are inserted in one statement.
CopyRawTraces ==
    /\ compute_pc = "copy"
    /\ LET rows == [k \in DOMAIN fetch_as_dict(Trace) |->
                       remove_channel(fetch_as_dict(Trace)[k])]
           inserted == before_duplicate(rows, {t.trace_id : t \in ComputeTracesTrace})
       IN  IF Len(inserted) = Len(rows)
           THEN /\ ComputeTracesTrace' = ComputeTracesTrace \cup Range(rows)
                /\ compute_pc' = "done"
                /\ compute_error' = compute_error
           ELSE /\ ComputeTracesTrace' \in {ComputeTracesTrace,
                                            ComputeTracesTrace \cup Range(inserted)}
                /\ compute_pc' = "failed"
                /\ compute_error' = "DuplicateTrace"
    /\ UNCHANGED <<ExtractRaw, Trace, Fluorophore, ComputeTraces, pairs, twitch_slope,
                   twitch_ratio, window, printed, notComputeVars>>

\* Lines 986-1001, one pass of the loop over the traces of both channels. The
\* pass prints the trace it processes and nothing else; estimate_twitch_ratio
\* prints nothing and issues no warning.
UnmixTrace ==
    /\ compute_pc = "unmix"
    /\ pairs # <<>>
    /\ printed' = Append(printed, [kind |-> "print", text |-> "Processing",
                                   trace_id |-> Head(pairs).trace_id])
    /\ window' = [product |-> product(Head(pairs).green_trace, Head(pairs).blue_trace),
                  start |-> notnan(product(Head(pairs).green_trace,
                                           Head(pairs).blue_trace), 0, 1),
                  end |-> IF notnan(product(Head(pairs).green_trace,
                                            Head(pairs).blue_trace), 0, 1).raised # ""
                          THEN <<>>
                          ELSE notnan(product(Head(pairs).green_trace,
                                              Head(pairs).blue_trace),
                                      len(Head(pairs).green_trace) - 1, -1)]
    /\ LET trace_id == Head(pairs).trace_id
           gt == Head(pairs).green_trace
           bt == Head(pairs).blue_trace
           start == notnan(product(gt, bt), 0, 1)
           end == notnan(product(gt, bt), len(gt) - 1, -1)
       IN  IF start.raised # ""
           THEN /\ compute_pc' = "failed"
                /\ compute_error' = start.raised
                /\ UNCHANGED <<ComputeTracesTrace, pairs, twitch_slope, twitch_ratio>>
           ELSE \E fitted_slope \in linregress(gt, bt, start.value, end.value) :
                  IF fitted_slope = "ValueError"
                  THEN /\ compute_pc' = "failed"
                       /\ compute_error' = fitted_slope
                       /\ UNCHANGED <<ComputeTracesTrace, pairs, twitch_slope,
                                      twitch_ratio>>
                  ELSE LET gamma == estimate_twitch_ratio(fitted_slope)
                           x == unmixed(gt, bt, start.value, end.value, gamma)
                       IN  /\ twitch_slope' = fitted_slope
                           /\ twitch_ratio' = gamma
                           /\ ComputeTracesTrace' = ComputeTracesTrace \cup
                                   {[trace_id |-> trace_id, trace |-> x]}
                           /\ pairs' = Tail(pairs)
                           /\ UNCHANGED <<compute_pc, compute_error>>
    /\ UNCHANGED <<ExtractRaw, Trace, Fluorophore, ComputeTraces, notComputeVars>>

UnmixDone ==
    /\ compute_pc = "unmix"
    /\ pairs = <<>>
    /\ compute_pc' = "done"
    /\ UNCHANGED <<ExtractRaw, Trace, Fluorophore, ComputeTraces, ComputeTracesTrace,
                   compute_error, pairs, twitch_slope, twitch_ratio, window, printed,
                   notComputeVars>>

ComputeNext ==
    \/ NoRawTraces
    \/ InsertComputeTraces
    \/ CopyRawTraces
    \/ UnmixTrace
    \/ UnmixDone

SpecCompute == ComputeInit /\ [][ComputeNext]_vars

\* C10: a finished run of a fluorophore other than Twitch2B holds exactly one
\* ComputeTraces.Trace record per ExtractRaw.Trace record, with the raw trace
\* as its trace, for any number of channels.
C10_OneRecordPerRawTrace ==
    (compute_pc \in {"done", "failed"} /\ Fluorophore # "Twitch2B" /\ Trace # {}) =>
        /\ Cardinality(ComputeTracesTrace) = Cardinality(Trace)
        /\ \A t \in Trace : \E c \in ComputeTracesTrace :
               c.trace_id = t.trace_id /\ c.trace = t.raw_trace

-----------------------------------------------------------------------------
(* Spikes._make_tuples *)

\* SpikeMethod.contents, lines 1015-1019.
contents ==
    {[spike_method |-> 2, spike_method_name |-> "oopsi", language |-> "python"],
     [spike_method |-> 3, spike_method_name |-> "stm", language |-> "python"],
     [spike_method |-> 5, spike_method_name |-> "nmf", language |-> "matlab"]}

\* A method added to the lookup table that Spikes._make_tuples does not know.
other_methods ==
    {[spike_method |-> 4, spike_method_name |-> "foopsi", language |-> "python"]}

\* Spikes key: the key of the run and the spike method.
spikes_key == [run |-> key, spike_method |-> spike_method]

\* (SpikeMethod() & key).fetch1['spike_method_name']
method == (CHOOSE m \in SpikeMethod : m.spike_method = spike_method).spike_method_name

\* The ExtractRaw.SpikeRate tables of the model.
spike_trace_of(ch, id) == <<Number(ch), Number(id)>>
SpikeRateTables(channels) ==
    {{[channel |-> r[1], trace_id |-> r[2], spike_trace |-> spike_trace_of(r[1], r[2])] :
         r \in rows} : rows \in SUBSET (channels \X (1 .. 2))}

\* The ComputeTraces.Trace tables of the model, for traces of n timesteps:
\* trace 1 is any series or missing, trace 2 is a series of ones or missing.
ComputedTraceTables(n) ==
    {first \cup second :
        first \in {{}} \cup {{[trace_id |-> 1, trace |-> series]} : series \in Timeseries(n)},
        second \in {{}, {[trace_id |-> 2, trace |-> ones(n)]}}}

SpikesInit ==
    /\ ExtractRaw = {key}
    /\ ComputeTraces = {key}
    /\ \E n \in 2 .. MaxTimesteps : ComputeTracesTrace \in ComputedTraceTables(n)
    /\ SpikeRate \in SpikeRateTables(1 .. MaxChannels)
    /\ SpikeMethod \in {contents \cup other : other \in SUBSET other_methods}
    /\ spike_method \in {m.spike_method : m \in SpikeMethod}
    /\ Spikes = {}
    /\ RateTrace = {}
    /\ spikes_pc = "start"
    /\ spikes_error = ""
    /\ rate_rows = <<>>
    /\ Galvo = [nchannels |-> MaxChannels, nslices |-> 1, px_height |-> px_height,
                px_width |-> px_width, um_width |-> 50, um_height |-> 30]
    /\ GalvoMotion = <<>> /\ TargetStructure = FALSE
    /\ Trace = {[channel |-> r.channel, trace_id |-> r.trace_id, raw_trace |-> ones(2)] :
                    r \in SpikeRate}
    /\ GalvoSegmentation = {} /\ GalvoCorrelationImage = {}
    /\ BackgroundComponents = {} /\ ARCoefficients = {} /\ CNMFParameters = {}
    /\ GalvoROI = {}
    /\ Fluorophore = "" /\ compute_pc = "idle" /\ compute_error = "" /\ pairs = <<>>
    /\ twitch_slope = "" /\ twitch_ratio = <<>> /\ window = <<>> /\ printed = <<>>
    /\ LocalsIdle /\ MasksIdle /\ FillIdle /\ EstimateIdle /\ RasterIdle
    /\ EyeIdle /\ NotnanIdle

\* (ComputeTraces.Trace() & key) fetched in primary key order.
computed_traces == order_by_trace_id(ComputeTracesTrace)

\* SpikeMethod.spike_traces for one element of X, lines 1027-1045: the
\* predictions of c2s replace the trace from its first to its last defined
\* value. Only 'rate_trace' is left in the yielded dict.
spike_traces(trace) ==
    LET start == notnan(trace, 0, 1)
        end == notnan(trace, len(trace) - 1, -1)
    IN  IF start.raised # "" THEN [raised |-> start.raised]
        ELSE [raised |-> "",
              rate_trace |->
                  [k \in DOMAIN trace |->
                      IF k \in slice_positions(trace, start.value, end.value + 1)
                      THEN [nan |-> FALSE, prediction |-> trace[k]]
                      ELSE trace[k]]]

\* pyfnnd.deconvolve(fill_nans(np.float64(trace.flatten())), dt=1 / fps)[0]
deconvolve(trace) == [k \in DOMAIN trace |-> [nan |-> FALSE, deconvolved |-> trace[k]]]

\* Lines 1124-1130: the stm method. X holds the traces only.
DispatchStm ==
    /\ spikes_pc = "start"
    /\ method = "stm"
    /\ Spikes' = Spikes \cup {spikes_key}
    /\ rate_rows' = [k \in DOMAIN computed_traces |->
                        [trace |-> fill_nans(computed_traces[k].trace)]]
    /\ spikes_pc' = "stm"
    /\ UNCHANGED <<SpikeMethod, spike_method, RateTrace, spikes_error, ComputeTraces,
                   ComputeTracesTrace, SpikeRate, notSpikeVars>>

\* Lines 1131-1132: dict(key, **x) has no trace_id. The database refuses the
\* row in strict mode and stores trace_id 0 otherwise.
InsertStmRateTrace ==
    /\ spikes_pc = "stm"
    /\ rate_rows # <<>>
    /\ LET x == spike_traces(Head(rate_rows).trace)
       IN  IF x.raised # ""
           THEN /\ spikes_pc' = "failed"
                /\ spikes_error' = x.raised
                /\ UNCHANGED <<RateTrace, rate_rows>>
           ELSE \/ /\ spikes_pc' = "failed"
                   /\ spikes_error' = "MissingTraceId"
                   /\ UNCHANGED <<RateTrace, rate_rows>>
                \/ /\ ~Duplicate(RateTrace, {"spike_method", "trace_id"},
                                 [spike_method |-> spike_method, trace_id |-> 0])
                   /\ RateTrace' = RateTrace \cup
                          {[spike_method |-> spike_method, trace_id |-> 0,
                            rate_trace |-> x.rate_trace]}
                   /\ rate_rows' = Tail(rate_rows)
                   /\ UNCHANGED <<spikes_pc, spikes_error>>
                \/ /\ Duplicate(RateTrace, {"spike_method", "trace_id"},
                                [spike_method |-> spike_method, trace_id |-> 0])
                   /\ spikes_pc' = "failed"
                   /\ spikes_error' = "DuplicateRateTrace"
                   /\ UNCHANGED <<RateTrace, rate_rows>>
    /\ UNCHANGED <<SpikeMethod, spike_method, Spikes, ComputeTraces, ComputeTracesTrace,
                   SpikeRate, notSpikeVars>>

\* Lines 1133-1135: the nmf method, for a run with spike rates.
DispatchNmf ==
    /\ spikes_pc = "start"
    /\ method = "nmf"
    /\ IF SpikeRate # {}
       THEN /\ Spikes' = Spikes \cup {spikes_key}
            /\ rate_rows' = fetch_as_dict(SpikeRate)
            /\ spikes_pc' = "nmf"
       ELSE /\ spikes_pc' = "done"
            /\ UNCHANGED <<Spikes, rate_rows>>
    /\ UNCHANGED <<SpikeMethod, spike_method, RateTrace, spikes_error, ComputeTraces,
                   ComputeTracesTrace, SpikeRate, notSpikeVars>>

\* Lines 1136-1139: the spike trace becomes the rate trace, without channel.
InsertNmfRateTrace ==
    /\ spikes_pc = "nmf"
    /\ rate_rows # <<>>
    /\ LET x == [spike_method |-> spike_method, trace_id |-> Head(rate_rows).trace_id,
                 rate_trace |-> Head(rate_rows).spike_trace]
       IN  IF Duplicate(RateTrace, {"spike_method", "trace_id"}, x)
           THEN /\ spikes_pc' = "failed"
                /\ spikes_error' = "DuplicateRateTrace"
                /\ UNCHANGED <<RateTrace, rate_rows>>
           ELSE /\ RateTrace' = RateTrace \cup {x}
                /\ rate_rows' = Tail(rate_rows)
                /\ UNCHANGED <<spikes_pc, spikes_error>>
    /\ UNCHANGED <<SpikeMethod, spike_method, Spikes, ComputeTraces, ComputeTracesTrace,
                   SpikeRate, notSpikeVars>>

\* Mutant: the oopsi method without the insert of the master row.
DispatchOopsiWithoutMaster ==
    /\ spikes_pc = "start"
    /\ method = "oopsi"
    /\ rate_rows' = computed_traces
    /\ spikes_pc' = "oopsi"
    /\ UNCHANGED <<SpikeMethod, spike_method, Spikes, RateTrace, spikes_error,
                   ComputeTraces, ComputeTracesTrace, SpikeRate, notSpikeVars>>

\* Lines 1140-1144: the oopsi method.
DispatchOopsi ==
    /\ spikes_pc = "start"
    /\ method = "oopsi"
    /\ Spikes' = Spikes \cup {spikes_key}
    /\ rate_rows' = computed_traces
    /\ spikes_pc' = "oopsi"
    /\ UNCHANGED <<SpikeMethod, spike_method, RateTrace, spikes_error, ComputeTraces,
                   ComputeTracesTrace, SpikeRate, notSpikeVars>>

\* Lines 1145-1147: the rate trace is inserted under the key of its trace.
InsertOopsiRateTrace ==
    /\ spikes_pc = "oopsi"
    /\ rate_rows # <<>>
    /\ RateTrace' = RateTrace \cup
           {[spike_method |-> spike_method, trace_id |-> Head(rate_rows).trace_id,
             rate_trace |-> deconvolve(fill_nans(Head(rate_rows).trace))]}
    /\ rate_rows' = Tail(rate_rows)
    /\ UNCHANGED <<SpikeMethod, spike_method, Spikes, spikes_pc, spikes_error,
                   ComputeTraces, ComputeTracesTrace, SpikeRate, notSpikeVars>>

\* The loop of a method is over.
RateTracesInserted ==
    /\ spikes_pc \in {"stm", "nmf", "oopsi"}
    /\ rate_rows = <<>>
    /\ spikes_pc' = "done"
    /\ UNCHANGED <<SpikeMethod, spike_method, Spikes, RateTrace, spikes_error, rate_rows,
                   ComputeTraces, ComputeTracesTrace, SpikeRate, notSpikeVars>>

\* Mutant: the run registered before the method is looked at.
MethodNotImplementedAfterInsert ==
    /\ spikes_pc = "start"
    /\ method \notin {"stm", "nmf", "oopsi"}
    /\ Spikes' = Spikes \cup {spikes_key}
    /\ spikes_pc' = "failed"
    /\ spikes_error' = "NotImplementedError"
    /\ UNCHANGED <<SpikeMethod, spike_method, RateTrace, rate_rows, ComputeTraces,
                   ComputeTracesTrace, SpikeRate, notSpikeVars>>
\* Lines 1148-1149: any other method raises before anything is inserted.
MethodNotImplemented ==
    /\ spikes_pc = "start"
    /\ method \notin {"stm", "nmf", "oopsi"}
    /\ spikes_pc' = "failed"
    /\ spikes_error' = "NotImplementedError"
    /\ UNCHANGED <<SpikeMethod, spike_method, Spikes, RateTrace, rate_rows, ComputeTraces,
                   ComputeTracesTrace, SpikeRate, notSpikeVars>>

SpikesNext ==
    \/ DispatchStm
    \/ InsertStmRateTrace
    \/ DispatchNmf
    \/ InsertNmfRateTrace
    \/ DispatchOopsi
    \/ InsertOopsiRateTrace
    \/ RateTracesInserted
    \/ MethodNotImplemented

SpecSpikes == SpikesInit /\ [][SpikesNext]_vars

\* C5: a run whose spike method is none of stm, nmf and oopsi fails with
\* NotImplementedError, and neither Spikes nor Spikes.RateTrace holds a row of it.
C5_UnknownMethodInsertsNothing ==
    (method \notin {"stm", "nmf", "oopsi"}) =>
        /\ spikes_pc \in {"start", "failed"}
        /\ spikes_pc = "failed" => spikes_error = "NotImplementedError"
        /\ Spikes = {}
        /\ RateTrace = {}

C5_Witness ==
    /\ method = "foopsi"
    /\ spikes_pc = "failed"
    /\ spikes_error = "NotImplementedError"
    /\ ComputeTracesTrace # {}
    /\ SpikeRate # {}

-----------------------------------------------------------------------------
(* Claims on the Twitch2B branch of ComputeTraces._make_tuples *)

\* The indices at which green * blue is defined, and the first and last of them.
product_defined(gt, bt) == {k \in DOMAIN gt : ~isnan(product(gt, bt)[k])}
first_defined(gt, bt) ==
    CHOOSE k \in product_defined(gt, bt) : \A j \in product_defined(gt, bt) : k <= j
last_defined(gt, bt) ==
    CHOOSE k \in product_defined(gt, bt) : \A j \in product_defined(gt, bt) : j <= k

\* The trace pairs of a Twitch2B run together with the record computed from them.
computed_pairs ==
    {cp \in [pair : Range(green_blue(Trace)), computed : ComputeTracesTrace] :
        cp.computed.trace_id = cp.pair.trace_id}

\* C11: for a Twitch2B pair whose channels are both defined from the first
\* through the last index at which green * blue is defined, the computed trace
\* holds a value at every index of that range, both ends included.
C11_ComputedFromFirstThroughLast ==
    Fluorophore = "Twitch2B" =>
        \A cp \in computed_pairs :
            LET gt == cp.pair.green_trace
                bt == cp.pair.blue_trace
                range == first_defined(gt, bt) .. last_defined(gt, bt)
            IN  (\A k \in range : k \in product_defined(gt, bt)) =>
                    \A k \in range : ~isnan(cp.computed.trace[k])

\* C12: the computed trace of a Twitch2B pair has the length of the input
\* traces and is NaN at every index before the first and after the last index
\* at which green * blue is defined.
C12_UndefinedOutsideWindow ==
    Fluorophore = "Twitch2B" =>
        \A cp \in computed_pairs :
            LET gt == cp.pair.green_trace
                bt == cp.pair.blue_trace
                x == cp.computed.trace
            IN  /\ DOMAIN x = DOMAIN gt
                /\ DOMAIN x = DOMAIN bt
                /\ \A k \in DOMAIN x :
                       (k < first_defined(gt, bt) \/ k > last_defined(gt, bt)) =>
                           x[k] = NaN /\ x[k] # Number(0)

\* C12 witness: a pair undefined at its first index gave a trace with a
\* computed value in the window and NaN before it.
C12_Witness ==
    /\ Fluorophore = "Twitch2B"
    /\ compute_pc = "done"
    /\ \E cp \in computed_pairs :
           /\ first_defined(cp.pair.green_trace, cp.pair.blue_trace) > 0
           /\ isnan(cp.computed.trace[0])
           /\ \E k \in DOMAIN cp.computed.trace : ~isnan(cp.computed.trace[k])

-----------------------------------------------------------------------------
(* Claims on the records of Spikes._make_tuples *)

\* The trace ids a method infers rates for, one per input trace.
input_trace_ids ==
    IF method = "nmf" THEN {<<r.channel, r.trace_id>> : r \in SpikeRate}
    ELSE {<<1, t.trace_id>> : t \in ComputeTracesTrace}

\* C13: a finished run of stm, nmf or oopsi holds one RateTrace record per
\* input trace, and every record carries the trace_id of an input trace.
C13_OneRateTracePerTrace ==
    (spikes_pc \in {"done", "failed"} /\ method \in {"stm", "nmf", "oopsi"}) =>
        /\ Cardinality(RateTrace) = Cardinality(input_trace_ids)
        /\ \A r \in RateTrace : \E t \in input_trace_ids : r.trace_id = t[2]
        /\ \A t \in input_trace_ids : \E r \in RateTrace : r.trace_id = t[2]

\* C14: a finished nmf run holds exactly one RateTrace record per
\* ExtractRaw.SpikeRate record, with the spike trace as its rate trace, for
\* any number of channels.
C14_OneRateTracePerSpikeRate ==
    (spikes_pc \in {"done", "failed"} /\ method = "nmf") =>
        /\ Cardinality(RateTrace) = Cardinality(SpikeRate)
        /\ \A s \in SpikeRate : \E r \in RateTrace :
               r.trace_id = s.trace_id /\ r.rate_trace = s.spike_trace

-----------------------------------------------------------------------------
(* Claims on the records of ExtractRaw._make_tuples, under Spec *)

\* The iteration (channel position, slice position) comes before the current one.
earlier_iteration(ci, si) ==
    ci < channel_idx \/ (ci = channel_idx /\ si < slice_idx)

\* C15: when the demix routine raises for (channel, slice) the run ends with
\* that exception; only earlier iterations were demixed, no Trace, SpikeRate,
\* ARCoefficients, GalvoROI or BackgroundComponents row of the failing
\* (channel, slice) exists and there is no CNMFParameters row.
C15_DemixFailureAbortsRun ==
    error = "ExternalToolError" =>
        /\ pc = "failed"
        /\ CNMFParameters = {}
        /\ \A d \in demixed : \E ci \in DOMAIN scan_channels, si \in DOMAIN scan_slices :
               /\ earlier_iteration(ci, si)
               /\ d.channel = scan_channels[ci] /\ d.slice = scan_slices[si]
        /\ \A r \in GalvoROI \cup BackgroundComponents :
               ~(r.channel = channel /\ r.slice = slice)
        /\ \A r \in Trace \cup SpikeRate \cup ARCoefficients :
               r.channel = channel => r.trace_id <= num_traces_until_now
        /\ \A r \in Trace \cup SpikeRate \cup ARCoefficients \cup GalvoROI
                      \cup BackgroundComponents :
               \E ci \in DOMAIN scan_channels : r.channel = scan_channels[ci]
                                                /\ ci <= channel_idx

\* C15 witness: the demix routine raised for the second slice of a channel
\* whose first slice was written.
C15_Witness ==
    /\ error = "ExternalToolError"
    /\ pc = "failed"
    /\ slice_idx = 2
    /\ Trace # {}
    /\ BackgroundComponents # {}

\* The rows of a table with the key (channel, trace_id) of a Trace row.
rows_of_trace(table, t) ==
    {r \in table : r.channel = t.channel /\ r.trace_id = t.trace_id}

\* C16: after a completed run with AR order 2 every Trace row has exactly one
\* SpikeRate, one ARCoefficients and one GalvoROI row with its (channel,
\* trace_id), and each row of these tables has its Trace row.
C16_OneRowPerTraceInEveryTable ==
    (pc = "done" /\ kwargs.AR_order = 2) =>
        /\ \A t \in Trace :
               /\ Cardinality(rows_of_trace(SpikeRate, t)) = 1
               /\ Cardinality(rows_of_trace(ARCoefficients, t)) = 1
               /\ Cardinality(rows_of_trace(GalvoROI, t)) = 1
        /\ \A r \in SpikeRate \cup ARCoefficients \cup GalvoROI :
               Cardinality(rows_of_trace(Trace, r)) = 1

\* C16 witness: a completed run that wrote several components.
C16_Witness ==
    /\ pc = "done"
    /\ kwargs.AR_order = 2
    /\ Cardinality(Trace) >= 2
    /\ Cardinality(GalvoROI) >= 2

\* C17: after a completed run every (channel, slice) that was demixed has
\* exactly one BackgroundComponents row, also when no component was returned,
\* the row holds the background matrices returned for it, and there is no
\* other BackgroundComponents row.
C17_OneBackgroundPerChannelAndSlice ==
    pc = "done" =>
        /\ demixed # {}
        /\ \A d \in demixed :
               LET rows == {r \in BackgroundComponents :
                               r.channel = d.channel /\ r.slice = d.slice}
               IN  /\ Cardinality(rows) = 1
                   /\ \A r \in rows :
                          /\ r.masks = d.result.background_location_matrix
                          /\ r.activity = d.result.background_activity_matrix
        /\ \A r \in BackgroundComponents :
               \E d \in demixed : r.channel = d.channel /\ r.slice = d.slice

\* C17 witness: a completed run whose demix call returned no component.
C17_Witness ==
    /\ pc = "done"
    /\ \E d \in demixed : DOMAIN d.result.raw_traces = {}
    /\ Trace = {}
    /\ BackgroundComponents # {}

\* C18: there is at most one CNMFParameters row; it exists only once every
\* (channel, slice) iteration has been demixed and its background stored; its
\* names are lower case (ar_order for AR_order) and its values are those every
\* demix call was given.
C18_ParametersOnceAfterAllSlices ==
    /\ Cardinality(CNMFParameters) <= 1
    /\ pc = "done" => CNMFParameters # {}
    /\ \A row \in CNMFParameters :
           /\ pc = "done"
           /\ \A ci \in DOMAIN scan_channels, si \in DOMAIN scan_slices :
                  /\ \E d \in demixed : d.channel = scan_channels[ci]
                                        /\ d.slice = scan_slices[si]
                  /\ \E r \in BackgroundComponents : r.channel = scan_channels[ci]
                                                     /\ r.slice = scan_slices[si]
           /\ "AR_order" \notin DOMAIN row
           /\ \A d \in demixed :
                  /\ DOMAIN row = (DOMAIN d.kwargs \ {"AR_order"}) \cup {"ar_order"}
                  /\ row.ar_order = d.kwargs.AR_order
                  /\ \A name \in DOMAIN d.kwargs \ {"AR_order"} : row[name] = d.kwargs[name]

\* C18 witness: a completed run stored the parameters of a scan with a target
\* structure.
C18_Witness ==
    /\ pc = "done"
    /\ TargetStructure
    /\ \E row \in CNMFParameters : row.ar_order = 2 /\ row.init_on_patches
    /\ demixed # {}

\* C19: the parameters of a run without a target structure are init_method
\* greedy_roi, 4 background components, init_on_patches false and no patch
\* parameters; with a target structure they are sparse_nmf, snmf_alpha 500, 1
\* background component, init_on_patches true, patch_downsampling_factor 4 and
\* percentage_of_patch_overlap 0.2; AR_order is 2 and merge_threshold 0.8 in
\* both, and every demix call gets these parameters.
C19_InitializationBySelectedStructure ==
    (pc # "start" /\ kwargs # <<>>) =>
        /\ kwargs.AR_order = 2
        /\ kwargs.merge_threshold = <<8, 10>>
        /\ ~TargetStructure =>
               /\ kwargs.init_method = "greedy_roi"
               /\ kwargs.num_background_components = 4
               /\ kwargs.init_on_patches = FALSE
               /\ DOMAIN kwargs \cap {"patch_downsampling_factor",
                                      "percentage_of_patch_overlap", "snmf_alpha"} = {}
        /\ TargetStructure =>
               /\ kwargs.init_method = "sparse_nmf"
               /\ kwargs.snmf_alpha = 500
               /\ kwargs.num_background_components = 1
               /\ kwargs.init_on_patches = TRUE
               /\ kwargs.patch_downsampling_factor = 4
               /\ kwargs.percentage_of_patch_overlap = <<2, 10>>
        /\ \A d \in demixed : d.kwargs = kwargs

\* C19 witness: the demix routine was called for a scan with a target
\* structure with the sparse_nmf parameters.
C19_Witness ==
    /\ TargetStructure
    /\ \E d \in demixed : d.kwargs.init_method = "sparse_nmf"
                          /\ d.kwargs.num_background_components = 1
    /\ pc = "components"

\* C20: estimate_twitch_ratio divides by a strictly negative slope: a negative
\* fitted slope as it is, and -1 in place of a fitted slope that is zero or
\* positive.
C20_RatioOfNegativeSlope ==
    twitch_ratio # <<>> =>
        /\ twitch_ratio.slope \in {"negative", "minus one"}
        /\ twitch_slope = "negative" => twitch_ratio.slope = twitch_slope
        /\ twitch_slope \in {"zero", "positive"} => twitch_ratio.slope = "minus one"

-----------------------------------------------------------------------------
(* The claims about the degenerate fit, the frame count, repeated runs and *)
(* the order within a run.                                                 *)

\* C21: when the fitted slope is not negative, the clamp to -1 is applied, the
\* computed trace of the pair is stored and a warning or quality flag about
\* the clamp is issued to the operator.
C21_ClampSurfaced ==
    twitch_slope \in {"zero", "positive"} =>
        /\ twitch_ratio.slope = "minus one"
        /\ \E m \in Range(printed) : m.kind \in {"warning", "quality flag"}

-----------------------------------------------------------------------------
(* Eye.grab_timestamps_and_frames *)

MaxStamps == 3          \* camera timestamps in the hdf file
MaxVideoFrames == 3     \* frames of the eye video
MaxSamples == 2         \* n_sample_frames

\* np.linspace(0, stop, num) before rounding: element k is the exact quotient
\* k * stop / (num - 1); a single sample is the start.
linspace_floor(stop, num) ==
    [k \in 0 .. num - 1 |-> IF num = 1 THEN 0 ELSE (k * stop) \div (num - 1)]
linspace_round(stop, num) ==
    [k \in 0 .. num - 1 |-> IF num = 1 THEN 0 ELSE RoundHalfEven(k * stop, num - 1)]

\* eye_time[:total_frames]
prefix(array, n) == [k \in {j \in DOMAIN array : j < n} |-> array[k]]

\* The hdf file holds any number of camera timestamps, one second apart, and
\* the video any number of frames.
EyeInit ==
    /\ ExtractIdle
    /\ MasksIdle /\ FillIdle /\ EstimateIdle /\ RasterIdle /\ ComputeIdle /\ SpikesIdle
    /\ \E n \in 0 .. MaxStamps, first \in 0 .. 1 :
          timestamps = [k \in 0 .. n - 1 |-> first + k]
    /\ no_frames \in 0 .. MaxVideoFrames
    /\ n_sample_frames \in 1 .. MaxSamples
    /\ eye_time = <<>>
    /\ total_frames = 0
    /\ frame_idx = <<>>
    /\ eye_warnings = <<>>
    /\ eye_pc = "start"
    /\ eye_error = ""
    /\ NotnanIdle

\* Lines 1211-1242: the camera times, their number and the sample positions.
ReadTimestamps ==
    /\ eye_pc = "start"
    /\ eye_time' = timestamps
    /\ total_frames' = len(timestamps)
    /\ frame_idx' = linspace_floor(len(timestamps) - 1, n_sample_frames)
    /\ eye_pc' = "video"
    /\ UNCHANGED <<timestamps, no_frames, n_sample_frames, eye_warnings, eye_error>>
    /\ UNCHANGED <<extractVars, maskVars, fillVars, estimateVars, rasterVars, computeVars,
                   spikeVars, notnanVars>>

\* Mutant: the counts are not tested for zero.
ReconcileWithoutZeroTest ==
    /\ eye_pc = "video"
    /\ IF total_frames # no_frames
       THEN /\ eye_warnings' = Append(eye_warnings, [total_frames |-> total_frames,
                                                     no_frames |-> no_frames])
            /\ IF total_frames > no_frames
               THEN /\ total_frames' = no_frames
                    /\ eye_time' = prefix(eye_time, no_frames)
                    /\ frame_idx' = linspace_round(no_frames - 1, n_sample_frames)
                    /\ eye_pc' = "grab"
                    /\ eye_error' = eye_error
               ELSE /\ eye_pc' = "failed"
                    /\ eye_error' = "PipelineException"
                    /\ UNCHANGED <<total_frames, eye_time, frame_idx>>
       ELSE /\ eye_pc' = "grab"
            /\ UNCHANGED <<total_frames, eye_time, frame_idx, eye_warnings, eye_error>>
    /\ UNCHANGED <<timestamps, no_frames, n_sample_frames>>
    /\ UNCHANGED <<extractVars, maskVars, fillVars, estimateVars, rasterVars, computeVars,
                   spikeVars, notnanVars>>

\* Lines 1244-1255: the frame count of the video against the number of
\* timestamps.
Reconcile ==
    /\ eye_pc = "video"
    /\ IF total_frames # no_frames
       THEN /\ eye_warnings' = Append(eye_warnings, [total_frames |-> total_frames,
                                                     no_frames |-> no_frames])
            /\ IF total_frames > no_frames /\ total_frames # 0 /\ no_frames # 0
               THEN /\ total_frames' = no_frames
                    /\ eye_time' = prefix(eye_time, no_frames)
                    /\ frame_idx' = linspace_round(no_frames - 1, n_sample_frames)
                    /\ eye_pc' = "grab"
                    /\ eye_error' = eye_error
               ELSE /\ eye_pc' = "failed"
                    /\ eye_error' = "PipelineException"
                    /\ UNCHANGED <<total_frames, eye_time, frame_idx>>
       ELSE /\ eye_pc' = "grab"
            /\ UNCHANGED <<total_frames, eye_time, frame_idx, eye_warnings, eye_error>>
    /\ UNCHANGED <<timestamps, no_frames, n_sample_frames>>
    /\ UNCHANGED <<extractVars, maskVars, fillVars, estimateVars, rasterVars, computeVars,
                   spikeVars, notnanVars>>

\* Lines 1256-1263: the sample frames are read and the result is returned.
\* cap.read() gives no frame at a position the video does not have, and
\* np.asarray(None, dtype=float)[..., 0] raises IndexError.
GrabFrames ==
    /\ eye_pc = "grab"
    /\ IF \A k \in DOMAIN frame_idx : frame_idx[k] \in 0 .. no_frames - 1
       THEN eye_pc' = "returned" /\ eye_error' = eye_error
       ELSE eye_pc' = "failed" /\ eye_error' = "IndexError"
    /\ UNCHANGED <<timestamps, eye_time, total_frames, no_frames, n_sample_frames,
                   frame_idx, eye_warnings>>
    /\ UNCHANGED <<extractVars, maskVars, fillVars, estimateVars, rasterVars, computeVars,
                   spikeVars, notnanVars>>

EyeNext ==
    \/ ReadTimestamps
    \/ Reconcile
    \/ GrabFrames

SpecEye == EyeInit /\ [][EyeNext]_vars

\* C22: once the frame counts are reconciled, equal counts leave the
\* timestamps and total_frames as read; more timestamps than video frames,
\* both counts positive, leave the first no_frames timestamps and total_frames
\* equal to no_frames; any other mismatch ends the call with PipelineException
\* and nothing returned.
C22_FrameCountReconciliation ==
    eye_pc \in {"grab", "returned", "failed"} =>
        IF len(timestamps) = no_frames
        THEN /\ eye_time = timestamps
             /\ total_frames = len(timestamps)
             /\ eye_error # "PipelineException"
        ELSE IF len(timestamps) > no_frames /\ no_frames > 0
        THEN /\ len(eye_time) = no_frames
             /\ \A k \in DOMAIN eye_time : eye_time[k] = timestamps[k]
             /\ DOMAIN eye_time = 0 .. no_frames - 1
             /\ total_frames = no_frames
             /\ eye_error # "PipelineException"
        ELSE /\ eye_pc = "failed"
             /\ eye_error = "PipelineException"

\* C22 witness: a call that returned after the timestamps were cut to the
\* shorter video.
C22_Witness ==
    /\ eye_pc = "returned"
    /\ len(timestamps) > no_frames
    /\ len(eye_time) = no_frames
    /\ total_frames = no_frames

\* C23: a run started for a key whose master row is in ExtractRaw ends at the
\* master insert with a duplicate key error, and no table of the store is
\* changed by it.
C23_NoOverwriteOfExistingRun ==
    [][(pc = "start" /\ key \in ExtractRaw) =>
           /\ pc' = "failed"
           /\ error' = "DuplicateKey"
           /\ UNCHANGED <<tableVars, GalvoROI>>]_vars

\* C23 witness: a run that ended with the duplicate key error.
C23_Witness ==
    /\ pc = "failed"
    /\ error = "DuplicateKey"
    /\ ExtractRaw = {key}
    /\ Trace = {} /\ GalvoCorrelationImage = {} /\ CNMFParameters = {}

-----------------------------------------------------------------------------
(* ExtractRaw.save_video: the location and the activity matrix *)

\* The raw trace and the mask of the model for a Trace row: each tells its
\* channel and trace_id.
raw_trace_of(ch, id) == [k \in 0 .. 1 |-> Number(IF k = 0 THEN ch ELSE id)]
mask_of(id) == [mask_pixels |-> <<1 + (id % (px_height * px_width))>>,
                mask_weights |-> <<id>>]

\* The stores of the model: any set of Trace rows of two channels, each
\* without a mask (slice_of 0) or with a GalvoROI row in one slice.
TraceKeys == (1 .. 2) \X (1 .. MaxComponents)
traces_of(keys) ==
    {[channel |-> k[1], trace_id |-> k[2], raw_trace |-> raw_trace_of(k[1], k[2])] :
        k \in keys}
rois_of(slice_of) ==
    {[channel |-> k[1], trace_id |-> k[2], slice |-> slice_of[k]] @@ mask_of(k[2]) :
        k \in {k \in DOMAIN slice_of : slice_of[k] > 0}}

VideoInit ==
    /\ \E keys \in SUBSET TraceKeys :
          \E slice_of \in [keys -> 0 .. MaxSlices] :
              /\ Trace = traces_of(keys)
              /\ GalvoROI = rois_of(slice_of)
              /\ GalvoSegmentation = {[slice |-> r.slice] : r \in rois_of(slice_of)}
    /\ video_key \in [slice : 1 .. MaxSlices, channel : 1 .. 2]
    /\ Galvo = [nchannels |-> 2, nslices |-> MaxSlices, px_height |-> px_height,
                px_width |-> px_width, um_width |-> 50, um_height |-> 30]
    /\ GalvoMotion = <<>> /\ TargetStructure = FALSE
    /\ ExtractRaw = {key}
    /\ SpikeRate = {} /\ GalvoCorrelationImage = {} /\ BackgroundComponents = {}
    /\ ARCoefficients = {} /\ CNMFParameters = {}
    /\ LocalsIdle
    /\ location_matrix = <<>>
    /\ activity_matrix = <<>>
    /\ ret = <<>>
    /\ reextracted = <<>>
    /\ masks_pc = "video"
    /\ FillIdle /\ EstimateIdle /\ RasterIdle /\ ComputeIdle /\ SpikesIdle
    /\ EyeIdle /\ NotnanIdle

\* Mutant: the traces of the channel, whether or not they have a mask in the
\* slice.
get_all_traces_of_channel(sl, ch) ==
    LET trace_rel == {t \in Trace : t.channel = ch}
        fetched == order_by_trace_id(trace_rel)
    IN  [k \in 0 .. Len(fetched) - 1 |-> fetched[k + 1].raw_trace]

\* ExtractRaw.get_all_traces(slice, channel), lines 873-883: the join of
\* Trace and GalvoROI is on their common primary key attributes, channel and
\* trace_id.
get_all_traces(sl, ch) ==
    LET trace_rel == {t \in Trace : \E r \in GalvoROI :
                         /\ r.channel = t.channel /\ r.trace_id = t.trace_id
                         /\ r.slice = sl /\ t.channel = ch}
        fetched == order_by_trace_id(trace_rel)
    IN  [k \in 0 .. Len(fetched) - 1 |-> fetched[k + 1].raw_trace]

\* Lines 733-735 of save_video.
GetLocationAndActivity ==
    /\ masks_pc = "video"
    /\ location_matrix' = get_all_masks(video_key.slice, video_key.channel)
    /\ activity_matrix' = get_all_traces(video_key.slice, video_key.channel)
    /\ masks_pc' = "matrices"
    /\ UNCHANGED notMaskVars
    /\ UNCHANGED <<Galvo, runVars, GalvoROI, ret, reextracted, video_key>>

VideoNext == GetLocationAndActivity

SpecVideo == VideoInit /\ [][VideoNext]_vars

\* C24: the rows of get_all_traces(slice, channel) are the raw traces of the
\* Trace records with a mask in that slice and channel, in ascending trace_id
\* order, and mask k of get_all_masks(slice, channel) is the mask of the
\* record of row k.
C24_TracesAndMasksAligned ==
    masks_pc = "matrices" =>
        LET rois == {r \in GalvoROI : /\ r.slice = video_key.slice
                                      /\ r.channel = video_key.channel}
            ids == {r.trace_id : r \in rois}
            last == Cardinality(ids) - 1
        IN  /\ DOMAIN activity_matrix = 0 .. last
            /\ DOMAIN location_matrix = 0 .. last
            /\ \E order \in [0 .. last -> ids] :
                  /\ \A j, k \in 0 .. last : j < k => order[j] < order[k]
                  /\ \A k \in 0 .. last :
                        /\ \E t \in Trace :
                              /\ t.channel = video_key.channel
                              /\ t.trace_id = order[k]
                              /\ activity_matrix[k] = t.raw_trace
                        /\ \E r \in rois :
                              /\ r.trace_id = order[k]
                              /\ location_matrix[k] =
                                     reshape_masks(<<r.mask_pixels>>, <<r.mask_weights>>,
                                                   Galvo.px_height, Galvo.px_width)[0]

\* C24 witness: two records with a mask in the slice and channel asked for,
\* next to records of the other channel with the same trace ids, one with a
\* mask in the same slice and one without a mask.
C24_Witness ==
    /\ masks_pc = "matrices"
    /\ len(activity_matrix) = 2
    /\ activity_matrix[0] = raw_trace_of(video_key.channel, 1)
    /\ \E r \in GalvoROI : r.channel # video_key.channel /\ r.slice = video_key.slice
    /\ \E t \in Trace :
          /\ t.channel # video_key.channel
          /\ \A r \in GalvoROI : r.channel = t.channel => r.trace_id # t.trace_id

\* C25: within a pass for (channel, slice) the frames are raster corrected,
\* then motion corrected; the correlation image of these frames is in the
\* store before the demix routine is called with the same frames, and stays
\* there when the call raises; the component rows follow the call and the
\* background row follows the component rows.
C25_OrderWithinOnePass ==
    /\ \A image \in GalvoCorrelationImage :
          /\ image.correlation_image = motion_corrected(raster_corrected(
                                           loaded_scan(image.channel, image.slice)))
    /\ pc \in {"demix", "components", "background"} \/ error = "ExternalToolError" =>
          \E image \in GalvoCorrelationImage :
              /\ image.channel = channel /\ image.slice = slice
              /\ image.correlation_image = corrected_scan
    /\ \A call \in demixed :
          \E image \in GalvoCorrelationImage :
              /\ image.channel = call.channel /\ image.slice = call.slice
              /\ image.correlation_image = call.corrected_scan
    /\ \A roi \in GalvoROI :
          \E call \in demixed : call.channel = roi.channel /\ call.slice = roi.slice
    /\ \A t \in Trace :
          \E call \in demixed : \E j \in DOMAIN call.result.raw_traces :
              t.raw_trace = call.result.raw_traces[j]
    /\ \A background \in BackgroundComponents :
          \E call \in demixed :
              /\ call.channel = background.channel /\ call.slice = background.slice
              /\ background.masks = call.result.background_location_matrix
              /\ \A j \in DOMAIN call.result.raw_traces :
                    \E t \in Trace : t.raw_trace = call.result.raw_traces[j]

\* C25 witness: the demix call of the second slice raised after the pass of
\* the first slice was completed; the correlation images of both are stored.
C25_Witness ==
    /\ pc = "failed"
    /\ error = "ExternalToolError"
    /\ slice_idx = 2
    /\ Trace # {}
    /\ Cardinality(BackgroundComponents) = 1
    /\ Cardinality(GalvoCorrelationImage) = 2

\* C26 (as claimed): whatever channel each motion-correction record names, the
\* pass a run is in is for a (channel, slice) pair that no earlier pass of the
\* run was for, and no correlation-image or background insert ends the run
\* with a duplicate key.
C26_NoPairProcessedTwice ==
    /\ pc \in {"correct", "correlation", "demix", "components", "background"} =>
          \A ci \in DOMAIN scan_channels, si \in DOMAIN scan_slices :
              earlier_iteration(ci, si) =>
                  <<scan_channels[ci], scan_slices[si]>> # <<channel, slice>>
    /\ error \notin {"DuplicateGalvoCorrelationImage", "DuplicateBackgroundComponents"}

\* C27: after a completed run there is one GalvoSegmentation record for every
\* slice for which a demix call returned a component, and none for a slice
\* for which every call returned no component.
C27_OneSegmentationPerSliceWithComponents ==
    pc = "done" =>
        \A sl \in 1 .. Galvo.nslices :
            Cardinality({g \in GalvoSegmentation : g.slice = sl}) =
                IF \E call \in demixed : /\ call.slice = sl
                                         /\ DOMAIN call.result.raw_traces # {}
                THEN 1 ELSE 0

\* C27 witness: a completed run with two components in its slice and one
\* GalvoSegmentation record.
C27_Witness ==
    /\ pc = "done"
    /\ Cardinality(GalvoROI) = 2
    /\ Cardinality(GalvoSegmentation) = 1

-----------------------------------------------------------------------------
(* notnan, called by itself and by ComputeTraces._make_tuples *)

\* A call of notnan on any array, forward or backward from any of its
\* positions; the code calls it forward from 0 and backward from len(x) - 1.
NotnanInit ==
    /\ ExtractIdle
    /\ MasksIdle /\ FillIdle /\ EstimateIdle /\ RasterIdle /\ ComputeIdle /\ SpikesIdle
    /\ EyeIdle
    /\ notnan_x \in Arrays({NaN} \cup {Number(v) : v \in 0 .. MaxValue})
    /\ notnan_start \in DOMAIN notnan_x \cup {0}
    /\ notnan_increment \in {1, -1}
    /\ notnan_result = <<>>
    /\ notnan_pc = "call"

CallNotnan ==
    /\ notnan_pc = "call"
    /\ notnan_result' = notnan(notnan_x, notnan_start, notnan_increment)
    /\ notnan_pc' = IF notnan_result'.raised = "" THEN "returned" ELSE "raised"
    /\ UNCHANGED <<notnan_x, notnan_start, notnan_increment>>
    /\ UNCHANGED <<extractVars, maskVars, fillVars, estimateVars, rasterVars, computeVars,
                   spikeVars, eyeVars>>

NotnanNext ==
    \/ CallNotnan
    \/ ComputeNext

\* The calls of notnan by themselves and the runs of ComputeTraces.
SpecNotnan == (NotnanInit \/ ComputeInit) /\ [][NotnanNext]_vars

\* The positions notnan looks at from start in the direction of the scan.
scanned(array, start, increment) ==
    {k \in DOMAIN array : IF increment = 1 THEN k >= start ELSE k <= start}

\* C28: notnan returns the nearest position in the scan direction that holds
\* a number when there is one; when every position scanned holds NaN the
\* forward scan raises IndexError and the backward scan returns -1; and a
\* Twitch2B pair whose product is NaN everywhere ends the ComputeTraces run
\* with IndexError and no trace stored for it.
C28_NotnanOnUndefinedArrays ==
    /\ notnan_pc \in {"returned", "raised"} /\ notnan_x # <<>> =>
          LET defined == {k \in scanned(notnan_x, notnan_start, notnan_increment) :
                             ~isnan(notnan_x[k])}
          IN  IF defined # {}
              THEN /\ notnan_result.raised = ""
                   /\ notnan_result.value \in defined
                   /\ \A k \in defined :
                         IF notnan_increment = 1 THEN notnan_result.value <= k
                         ELSE notnan_result.value >= k
              ELSE IF notnan_increment = 1
              THEN notnan_result.raised = "IndexError"
              ELSE notnan_result.raised = "" /\ notnan_result.value = -1
    /\ window # <<>> =>
          IF \A k \in DOMAIN window.product : isnan(window.product[k])
          THEN /\ window.start.raised = "IndexError"
               /\ compute_pc = "failed"
               /\ compute_error = "IndexError"
               /\ \A c \in ComputeTracesTrace : c.trace_id # Head(pairs).trace_id
          ELSE /\ window.start.raised = ""
               /\ ~isnan(window.product[window.start.value])
               /\ ~isnan(window.product[window.end.value])
               /\ \A k \in DOMAIN window.product :
                     ~isnan(window.product[k]) =>
                         window.start.value <= k /\ k <= window.end.value

\* C28 witness: a backward scan of an array of several NaN returned -1.
C28_Witness ==
    /\ notnan_pc = "returned"
    /\ len(notnan_x) >= 2
    /\ \A k \in DOMAIN notnan_x : isnan(notnan_x[k])
    /\ notnan_increment = -1
    /\ notnan_start = len(notnan_x) - 1
    /\ notnan_result.value = -1

-----------------------------------------------------------------------------
(* Spikes.populate: the keys Spikes.key_source offers *)

\* A method named nmf that a user declared with language python.
nmf_in_python ==
    {[spike_method |-> 6, spike_method_name |-> "nmf", language |-> "python"]}

\* Mutant: the methods of every language.
key_source_of_any_language ==
    {m.spike_method : m \in {m \in SpikeMethod : ComputeTraces # {}}}

\* Spikes.key_source, lines 1055-1057, for the one run of the model: the
\* spike_method of every key.
key_source ==
    {m.spike_method : m \in {m \in SpikeMethod : ComputeTraces # {} /\ m.language = "python"}}

\* The stores Spikes.populate() is called on: the declared SpikeMethod
\* contents, alone or with methods a user added.
PopulateInit ==
    /\ ExtractRaw = {key}
    /\ ComputeTraces \in {{}, {key}}
    /\ \E n \in 2 .. MaxTimesteps :
          ComputeTracesTrace \in
              IF ComputeTraces = {} THEN {{}} ELSE ComputedTraceTables(n)
    /\ SpikeRate \in SpikeRateTables({1})
    /\ SpikeMethod \in {contents \cup other : other \in SUBSET (other_methods \cup nmf_in_python)}
    /\ spike_method = 0
    /\ Spikes = {}
    /\ RateTrace = {}
    /\ spikes_pc = "populate"
    /\ spikes_error = ""
    /\ rate_rows = <<>>
    /\ Galvo = [nchannels |-> MaxChannels, nslices |-> 1, px_height |-> px_height,
                px_width |-> px_width, um_width |-> 50, um_height |-> 30]
    /\ GalvoMotion = <<>> /\ TargetStructure = FALSE
    /\ Trace = {[channel |-> r.channel, trace_id |-> r.trace_id, raw_trace |-> ones(2)] :
                    r \in SpikeRate}
    /\ GalvoSegmentation = {} /\ GalvoCorrelationImage = {}
    /\ BackgroundComponents = {} /\ ARCoefficients = {} /\ CNMFParameters = {}
    /\ GalvoROI = {}
    /\ Fluorophore = "" /\ compute_pc = "idle" /\ compute_error = "" /\ pairs = <<>>
    /\ twitch_slope = "" /\ twitch_ratio = <<>> /\ window = <<>> /\ printed = <<>>
    /\ LocalsIdle /\ MasksIdle /\ FillIdle /\ EstimateIdle /\ RasterIdle
    /\ EyeIdle /\ NotnanIdle

\* populate() calls _make_tuples for a key of key_source that is not in
\* Spikes yet, one key after the other while no call raises.
Populate ==
    /\ spikes_pc \in {"populate", "done"}
    /\ \E m \in key_source \ {s.spike_method : s \in Spikes} :
          spike_method' = m
    /\ spikes_pc' = "start"
    /\ UNCHANGED <<SpikeMethod, Spikes, RateTrace, spikes_error, rate_rows, ComputeTraces,
                   ComputeTracesTrace, SpikeRate, notSpikeVars>>

PopulateNext ==
    \/ Populate
    \/ SpikesNext

SpecPopulate == PopulateInit /\ [][PopulateNext]_vars

\* C29: with the declared SpikeMethod contents, populate calls _make_tuples
\* only for the methods oopsi and stm; the nmf branch and the branch of the
\* methods not implemented are never entered.
C29_OnlyPythonMethodsDispatched ==
    SpikeMethod = contents =>
        /\ spike_method # 0 => method \in {"oopsi", "stm"}
        /\ \A s \in Spikes : s.spike_method \in {2, 3}
        /\ \A r \in RateTrace : r.spike_method \in {2, 3}
        /\ spikes_pc # "nmf"
        /\ spikes_error # "NotImplementedError"

\* C29 witness: with the declared contents both python methods were
\* dispatched and nothing is left for populate.
C29_Witness ==
    /\ SpikeMethod = contents
    /\ spikes_pc = "done"
    /\ {s.spike_method : s \in Spikes} = {2, 3}
    /\ key_source \ {s.spike_method : s \in Spikes} = {}

-----------------------------------------------------------------------------
(* The three populate routines together *)

PipelineInit ==
    \/ Init
    \/ ComputeInit
    \/ SpikesInit

PipelineNext ==
    \/ Next
    \/ ComputeNext
    \/ SpikesNext

\* A run of ExtractRaw._make_tuples, of ComputeTraces._make_tuples or of
\* Spikes._make_tuples.
SpecPipeline == PipelineInit /\ [][PipelineNext]_vars

\* C30: in every state of a run of one of the three routines, also the state
\* a raised exception leaves, every part record has its master record: the
\* ExtractRaw parts the ExtractRaw row of the run, ComputeTraces.Trace the
\* ComputeTraces row and Spikes.RateTrace the Spikes row of its spike method.
C30_MasterBeforePart ==
    /\ \A part \in {Trace, SpikeRate, ARCoefficients, GalvoROI, GalvoSegmentation,
                    GalvoCorrelationImage, BackgroundComponents, CNMFParameters} :
          part # {} => key \in ExtractRaw
    /\ ComputeTracesTrace # {} => key \in ComputeTraces
    /\ \A r \in RateTrace : [run |-> key, spike_method |-> r.spike_method] \in Spikes

\* C30 witness: a Spikes run that raised after a RateTrace record was
\* inserted.
C30_Witness ==
    /\ spikes_pc = "failed"
    /\ RateTrace # {}
    /\ Spikes # {}

====
